---- MODULE Spec2Model ----
(***************************************************************************)
(* Notey backend: the chat retrieval pipeline (routes_chat.py) and the     *)
(* semantic search service (vector_search.py).                             *)
(*                                                                         *)
(* Numbers.  Scores and similarities are floats in the source.  They are   *)
(* kept here in fixed point, in twentieths: 0.4 is 8, 0.3 is 6, 0.2 is 4,  *)
(* 0.5 is 10, 0.6 is 12.  A cosine is kept in tenths (-10..10), so that    *)
(* the rescaling (cos + 1) / 2 of compute_similarity is cos10 + 10 in      *)
(* twentieths, with no rounding.                                           *)
(*                                                                         *)
(* Text.  A text is a sequence of one-character strings, so that strip(),  *)
(* " ".join() and the substring test `in` are computed, not assumed.       *)
(***************************************************************************)
EXTENDS Integers, Sequences, FiniteSets, TLC

\* ------------------------------------------------------------------ bounds

\* Longest freely chosen tail of a candidate note list (after the padding).
MaxTail == 2
\* Longest candidate list handed to search_concepts / search_transcripts.
MaxCands == 3
\* Largest `limit` argument tried on the search functions.
MaxLimit == 3

\* --------------------------------------------------------------- constants

\* routes_chat.py:288  context_notes[:20]
TopN == 20
\* routes_chat.py:298  min_concept_score = 0.4
MinConceptScore == 8
\* routes_chat.py:299  min_similarity_score = 0.3
MinSimilarityScore == 6
\* routes_chat.py:302  similarity_score < 0.2
Meet1Similarity == 4
\* routes_chat.py:350  sources[:5]
MaxSources == 5
\* routes_chat.py:211  search_concepts(limit=5)
ConceptLimit == 5
\* routes_chat.py:212  search_concepts(threshold=0.5)
ConceptThreshold == 10
\* routes_chat.py:271  search_transcripts(limit=10)
TranscriptLimit == 10
\* routes_chat.py:272  search_transcripts(threshold=0.6)
TranscriptThreshold == 12
\* routes_chat.py:264  "concept_score": 0.5 of a direct transcript match
DirectMatchScore == 10
\* routes_chat.py:148  chunk_concept.get("score", 1.0)
DefaultLinkScore == 20
\* routes_chat.py:234  select(audio_chunks, limit=200)
ChunkLimit == 200

\* ------------------------------------------------------------------- text

Range(s) == {s[i] : i \in 1..Len(s)}

Min(a, b) == IF a <= b THEN a ELSE b

\* str.__contains__: `sub in text`
Contains(text, sub) ==
    \E i \in 1..(Len(text) - Len(sub) + 1) : SubSeq(text, i, i + Len(sub) - 1) = sub

\* Number of positions at which sub occurs in text.
Occurrences(text, sub) ==
    Cardinality({i \in 1..(Len(text) - Len(sub) + 1) :
                    SubSeq(text, i, i + Len(sub) - 1) = sub})

\* sep.join(parts)
RECURSIVE Join(_, _)
Join(parts, sep) ==
    IF parts = <<>> THEN <<>>
    ELSE IF Len(parts) = 1 THEN parts[1]
    ELSE parts[1] \o sep \o Join(Tail(parts), sep)

IsSpace(c) == c \in {" ", "\n", "\t"}

\* str.strip()
RECURSIVE LStrip(_)
LStrip(t) == IF t # <<>> /\ IsSpace(t[1]) THEN LStrip(Tail(t)) ELSE t

RECURSIVE RStrip(_)
RStrip(t) ==
    IF t # <<>> /\ IsSpace(t[Len(t)]) THEN RStrip(SubSeq(t, 1, Len(t) - 1)) ELSE t

Strip(t) == RStrip(LStrip(t))

\* dict.get(key, default): a dict is a record that has the key or not
Get(d, key, default) == IF key \in DOMAIN d THEN d[key] ELSE default

SPACE == <<" ">>
MEET1 == <<"M", "e", "e", "t", "1">>


\* -------------------------------------------------------------- variables

VARIABLES
    \* storage collaborator: rows in table order
    concepts,               \* table concepts: [id, name]
    chunk_concepts,         \* table chunk_concepts: [chunk_id, concept_id, score]
    audio_chunks,           \* table audio_chunks: [id, event_id, transcript, summary]
    events,                 \* table events: [id, title, started_at]
    \* embedding collaborator: cosine (in tenths) of two stripped texts
    cosine,
    \* chat_with_notes, one entry per request in flight
    pc,                     \* position of the handler
    request,                \* ChatRequest: [query, concept]
    all_concepts,
    related_concept_results,
    concept_search,         \* what happened inside search_concepts
    next_concept,           \* position of the loop over related_concept_results
    all_chunks,
    fetched_events,         \* `events` of the handler
    transcript_objects,
    context_notes,
    related_concepts,
    calls,                  \* the collaborator calls the handler has made
    relevant_events,
    event_content,
    combined,               \* combined_transcript / combined_summary of each event
    context_parts,
    sources,
    rag_prompt,             \* which prompt template was filled in
    \* one call of search_concepts / search_transcripts
    s_pc, s_kind, s_query, s_items, s_limit, s_threshold,
    s_embeddings, s_similarities, s_results,
    s_path,                 \* the way the call took through the function
    s_return,               \* what the caller gets: [outcome, value]
    \* one call of extract_concepts_from_transcript
    x_pc, x_transcript,
    x_response,             \* response.text of the generative collaborator
    x_text,                 \* response_text
    x_concepts,             \* what json.loads returned
    x_calls,                \* number of generate_content calls made
    x_return,               \* what the caller gets: [outcome, value]
    \* ConceptMention.validate_name applied to a name, then to its own result
    n_pc, n_name,
    n_results,              \* the name after each application
    \* construction of one ConceptUpsertRequest
    v_pc,
    v_raw,                  \* mentions as submitted: [name, score]
    v_mentions,             \* the ConceptMention objects built so far
    v_outcome,              \* "pending", "accepted", or the reason of the error
    \* concept write paths: POST /concepts/upsert, upsert_concepts_for_chunk
    \* (one entry per write path)
    w_pc, w_chunk_id,
    w_mentions,             \* request.mentions / concepts
    w_i,                    \* position of the loop over the mentions
    w_concept_id,           \* concept_id of the mention at hand
    w_inserted,             \* inserted_count
    w_runs,                 \* number of writes started so far
    \* one call of encode_batch
    b_pc, b_texts, b_valid_texts, b_valid_indices, b_result,
    \* GET /graph/export
    concept_relations,      \* table concept_relations: [src, dst, score]
    g_pc, g_limit,
    g_event_id,             \* event_id of the request, 0 for None
    g_events, g_chunks, g_chunk_concepts,   \* the rows the handler fetched
    g_concept_map,          \* keys of concept_map in insertion order
    g_event_concept_links,  \* values of event_concept_links in insertion order
    g_nodes, g_links,
    g_response,
    \* POST /transcribe-summary
    t_pc,
    t_url,                  \* payload.url: the chunk it is the audio of, if any
    t_retry_count,          \* retry_count of the endpoint
    t_attempts,             \* calls of the pipeline so far
    t_sleeps,               \* pauses of 2 seconds so far
    t_transcript, t_summary,
    t_outcome,              \* what the pipeline call at hand came to
    t_response,
    \* the process-wide vector search service and its callers
    m_service,              \* _vector_search_service: 0 for None, or the instance
    m_model,                \* _model of each service: 0 for None, or the instance
    m_services,             \* VectorSearchService objects constructed so far
    m_loads,                \* SentenceTransformer objects constructed so far
    q_pc,                   \* per caller
    q_service, q_model,     \* the instances a caller was given
    \* one call of SupabaseClient._make_request
    h_pc,
    h_attempt,              \* the loop variable
    h_requests,             \* HTTP requests sent so far
    h_sleeps,               \* the waits so far, in seconds
    h_replies,              \* what each request came to: a response or an exception
    h_response,             \* the local `response`: the last response received
    h_return

storageVars == <<concepts, chunk_concepts, audio_chunks, events>>
retrievalVars == <<request, all_concepts, related_concept_results, concept_search,
                   next_concept, all_chunks, fetched_events, transcript_objects,
                   context_notes, related_concepts, calls>>
aggregateVars == <<relevant_events, event_content, combined, context_parts, sources,
                   rag_prompt>>
chatVars == <<pc, retrievalVars, aggregateVars>>
searchVars == <<s_pc, s_kind, s_query, s_items, s_limit, s_threshold,
                s_embeddings, s_similarities, s_results, s_path, s_return>>
extractVars == <<x_pc, x_transcript, x_response, x_text, x_concepts, x_calls, x_return>>
normalizeVars == <<n_pc, n_name, n_results>>
validateVars == <<v_pc, v_raw, v_mentions, v_outcome>>
writeVars == <<w_pc, w_chunk_id, w_mentions, w_i, w_concept_id, w_inserted, w_runs>>
Paths == {"api", "auto"}
batchVars == <<b_pc, b_texts, b_valid_texts, b_valid_indices, b_result>>
graphVars == <<concept_relations, g_pc, g_limit, g_event_id, g_events, g_chunks, g_chunk_concepts,
               g_concept_map, g_event_concept_links, g_nodes, g_links, g_response>>
retryVars == <<t_pc, t_url, t_retry_count, t_attempts, t_sleeps, t_transcript, t_summary,
               t_outcome, t_response>>
modelVars == <<m_service, m_model, m_services, m_loads, q_pc, q_service, q_model>>
httpVars == <<h_pc, h_attempt, h_requests, h_sleeps, h_replies, h_response, h_return>>
serviceVars == <<retryVars, modelVars, httpVars>>
conceptVars == <<extractVars, normalizeVars, validateVars, writeVars, batchVars, graphVars,
                 serviceVars>>
vars == <<storageVars, cosine, chatVars, searchVars, conceptVars>>

\* the chat requests in flight
Reqs == {1, 2}

\* ------------------------------------------- chat_with_notes: aggregation

\* the exclusion tried only on notes that fail the threshold test
Meet1Skip_AfterThreshold(note) ==
    /\ Contains(note.event_title, MEET1)
    /\ Get(note, "similarity_score", 0) < Meet1Similarity
    /\ Get(note, "concept_score", 0) < MinConceptScore

\* routes_chat.py:302  'Meet1' in event_title and similarity_score < 0.2
Meet1Skip(note) ==
    /\ Contains(note.event_title, MEET1)
    /\ Get(note, "similarity_score", 0) < Meet1Similarity

\* routes_chat.py:307  concept_score >= 0.4 or similarity_score >= 0.3
PassesThreshold(note) ==
    \/ Get(note, "concept_score", 0) >= MinConceptScore
    \/ Get(note, "similarity_score", 0) >= MinSimilarityScore

\* a first pass over every note
FirstPassNotes_All(notes) == notes

\* routes_chat.py:288  the notes the first pass looks at
FirstPassNotes(notes) == SubSeq(notes, 1, Min(TopN, Len(notes)))

\* routes_chat.py:288-309  first pass over the notes, relevant_events so far in rel
RECURSIVE Pass1Loop(_, _, _)
Pass1Loop(notes, i, rel) ==
    IF i > Len(notes) THEN rel
    ELSE IF Meet1Skip(notes[i]) THEN Pass1Loop(notes, i + 1, rel)
    ELSE IF PassesThreshold(notes[i])
         THEN Pass1Loop(notes, i + 1, rel \cup {notes[i].event_id})
         ELSE Pass1Loop(notes, i + 1, rel)

Pass1(notes) == Pass1Loop(FirstPassNotes(notes), 1, {})

\* routes_chat.py:313  the notes the second pass looks at
SecondPassNotes(notes) == notes

\* position of event_id among the keys of event_content (0: no such key)
KeyIndex(ec, event_id) ==
    IF \E k \in 1..Len(ec) : ec[k].event_id = event_id
    THEN CHOOSE k \in 1..Len(ec) : ec[k].event_id = event_id
    ELSE 0

\* routes_chat.py:316-323  event_content[event_id] = {...} for a new key
NewContent(note) ==
    [event_id |-> note.event_id, event_title |-> note.event_title,
     event_date |-> note.event_date, transcripts |-> <<>>, summaries |-> <<>>]

\* a second pass that keeps a transcript once
Collect_Once(content, note) ==
    [content EXCEPT
        !.transcripts = IF note.transcript # <<>> /\ note.transcript \notin Range(@)
                        THEN Append(@, note.transcript) ELSE @,
        !.summaries = IF note.summary # <<>> THEN Append(@, note.summary) ELSE @]

\* routes_chat.py:326-329  append the note's transcript and summary when truthy
Collect(content, note) ==
    [content EXCEPT
        !.transcripts = IF note.transcript # <<>> THEN Append(@, note.transcript) ELSE @,
        !.summaries = IF note.summary # <<>> THEN Append(@, note.summary) ELSE @]

\* a second pass that filters note by note
Collected_PerNote(note, rel) ==
    /\ note.event_id \in rel
    /\ \/ Get(note, "concept_score", 0) >= MinConceptScore
       \/ Get(note, "similarity_score", 0) >= MinSimilarityScore

\* routes_chat.py:315  whether the second pass takes the note
Collected(note, rel) == note.event_id \in rel

\* routes_chat.py:311-329  second pass; ec is the dict in insertion order
RECURSIVE Pass2Loop(_, _, _, _)
Pass2Loop(notes, i, rel, ec) ==
    IF i > Len(notes) THEN ec
    ELSE IF ~Collected(notes[i], rel) THEN Pass2Loop(notes, i + 1, rel, ec)
    ELSE LET k == KeyIndex(ec, notes[i].event_id)
             ec1 == IF k = 0 THEN Append(ec, NewContent(notes[i])) ELSE ec
             k1 == IF k = 0 THEN Len(ec1) ELSE k
         IN Pass2Loop(notes, i + 1, rel,
                      [ec1 EXCEPT ![k1] = Collect(ec1[k1], notes[i])])

\* a second pass that takes the notes of every event
Pass2_EveryEvent(notes, rel) ==
    Pass2Loop(notes, 1, {notes[i].event_id : i \in 1..Len(notes)}, <<>>)

\* routes_chat.py:311-329
Pass2(notes, rel) == Pass2Loop(SecondPassNotes(notes), 1, rel, <<>>)

\* The orders in which iterating set(items) can yield its elements: every
\* duplicate-free listing (the order of a Python set of str is hash order).
SetOrders(items) ==
    LET S == Range(items)
        n == Cardinality(S)
    IN {o \in [1..n -> S] : \A a, b \in 1..n : a # b => o[a] # o[b]}

\* the summaries joined as collected, duplicates and all
SummaryOrders_NoDedup(summaries) == {summaries}

\* routes_chat.py:335  the lists " ".join() may be handed for content["summaries"]
SummaryOrders(summaries) == SetOrders(summaries)

\* one choice of summary order for each entry of event_content, from entry i on
RECURSIVE OrderChoices(_, _)
OrderChoices(ec, i) ==
    IF i > Len(ec) THEN {<<>>}
    ELSE {<<o>> \o rest : o \in SummaryOrders(ec[i].summaries),
                          rest \in OrderChoices(ec, i + 1)}

\* routes_chat.py:334
CombinedTranscript(content) == Join(content.transcripts, SPACE)

\* routes_chat.py:337-341  the f-string of one context part
ContextPart(content, order) ==
    <<"\nEvent: ">> \o content.event_title
        \o <<"\nTranscript: ">> \o CombinedTranscript(content)
        \o <<"\nSummary: ">> \o Join(order, SPACE)
        \o <<"\n---">>

\* routes_chat.py:343-347
SourceEntry(content) ==
    [event_title |-> content.event_title, event_id |-> content.event_id,
     event_date |-> content.event_date]

\* routes_chat.py:334-335  the two locals of one iteration of the loop
Combine(content, order) ==
    [event_id |-> content.event_id,
     combined_transcript |-> CombinedTranscript(content),
     combined_summary |-> Join(order, SPACE)]

BuildCombined(ec, orders) == [k \in 1..Len(ec) |-> Combine(ec[k], orders[k])]

\* routes_chat.py:332-347  context_parts after the loop over event_content.items()
BuildContextParts(ec, orders) == [k \in 1..Len(ec) |-> ContextPart(ec[k], orders[k])]

\* sources without the cut
BuildSources_NoCut(ec) == [k \in 1..Len(ec) |-> SourceEntry(ec[k])]

\* routes_chat.py:343-350  sources after the loop and the cut sources[:5]
BuildSources(ec) ==
    SubSeq([k \in 1..Len(ec) |-> SourceEntry(ec[k])], 1, Min(MaxSources, Len(ec)))

\* the template chosen by whether any part carries text
ChooseTemplate_ByText(parts) ==
    IF \A k \in 1..Len(parts) :
          Contains(parts[k], <<"\nTranscript: ", "\nSummary: ", "\n---">>)
    THEN "context_free" ELSE "context_grounded"

\* routes_chat.py:358  if not context_parts
ChooseTemplate(parts) ==
    IF parts = <<>> THEN "context_free" ELSE "context_grounded"


\* ------------------------------------------------ VectorSearchService

\* np.zeros(384): the zero vector
ZERO == <<"zero">>

\* self.model.encode(text): the embedding collaborator is deterministic, so the
\* vector of a text is named by the text it was computed from
ModelEncode(text) == <<"vec", text>>

\* vector_search.py:35-48
EncodeText(text) ==
    IF text = <<>> \/ Strip(text) = <<>> THEN ZERO ELSE ModelEncode(Strip(text))

\* vector_search.py:67-70  valid_indices, from position i on
RECURSIVE ValidIndices(_, _)
ValidIndices(texts, i) ==
    IF i > Len(texts) THEN <<>>
    ELSE IF texts[i] # <<>> /\ Strip(texts[i]) # <<>>
         THEN <<i>> \o ValidIndices(texts, i + 1)
         ELSE ValidIndices(texts, i + 1)

\* vector_search.py:67-70  valid_texts
ValidTexts(texts, valid_indices) ==
    [j \in 1..Len(valid_indices) |-> Strip(texts[valid_indices[j]])]

\* vector_search.py:76  self.model.encode(valid_texts)
ModelEncodeBatch(valid_texts) ==
    [j \in 1..Len(valid_texts) |-> ModelEncode(valid_texts[j])]

\* a result that holds the embeddings in its first rows
FillResult_Compact(n, valid_indices, embeddings) ==
    [i \in 1..n |-> IF i <= Len(embeddings) THEN embeddings[i] ELSE ZERO]

\* vector_search.py:79-81  zeros, then result[valid_idx] = embeddings[i]
FillResult(n, valid_indices, embeddings) ==
    [i \in 1..n |->
        IF \E j \in 1..Len(valid_indices) : valid_indices[j] = i
        THEN embeddings[CHOOSE j \in 1..Len(valid_indices) : valid_indices[j] = i]
        ELSE ZERO]

\* vector_search.py:50-83
EncodeBatch(texts) ==
    IF texts = <<>> THEN <<>>
    ELSE LET valid_indices == ValidIndices(texts, 1)
             valid_texts == ValidTexts(texts, valid_indices)
         IN FillResult(Len(texts), valid_indices, ModelEncodeBatch(valid_texts))

\* sklearn cosine_similarity of two rows, in tenths: a zero row has cosine 0
\* with everything, otherwise the embedding model decides (table cos)
Cosine(cos, u, v) == IF u = ZERO \/ v = ZERO THEN 0 ELSE cos[<<u[2], v[2]>>]

\* vector_search.py:106  (similarities + 1) / 2, from tenths to twentieths
Rescale(cos10) == cos10 + 10

\* vector_search.py:85-108
ComputeSimilarity(cos, query_embedding, candidate_embeddings) ==
    [i \in 1..Len(candidate_embeddings) |->
        Rescale(Cosine(cos, query_embedding, candidate_embeddings[i]))]

\* vector_search.py:132 / 179  the text a candidate is encoded from
CandidateText(kind, item) ==
    IF kind = "concepts" THEN item.name
    ELSE IF item.summary # <<>> THEN item.summary ELSE item.transcript

\* vector_search.py:142  if similarity >= threshold
Keeps(similarity, threshold) == similarity >= threshold

\* vector_search.py:143-145  result = item.copy(); result['similarity_score'] = ...
Scored(item, similarity) == [similarity_score |-> similarity] @@ item

\* vector_search.py:139-145  results before the sort
RECURSIVE FilterLoop(_, _, _, _)
FilterLoop(items, similarities, threshold, i) ==
    IF i > Len(items) THEN <<>>
    ELSE IF Keeps(similarities[i], threshold)
         THEN <<Scored(items[i], similarities[i])>>
                  \o FilterLoop(items, similarities, threshold, i + 1)
         ELSE FilterLoop(items, similarities, threshold, i + 1)

\* an unstable sort: an element goes in front of its equals
InsertDesc_Unstable(sorted, x, key) ==
    LET k == Cardinality({j \in 1..Len(sorted) : sorted[j][key] > x[key]})
    IN SubSeq(sorted, 1, k) \o <<x>> \o SubSeq(sorted, k + 1, Len(sorted))

\* list.sort(key, reverse=True) is stable: an element goes behind every element
\* whose key is greater than or equal to its own
InsertDesc(sorted, x, key) ==
    LET k == Cardinality({j \in 1..Len(sorted) : sorted[j][key] >= x[key]})
    IN SubSeq(sorted, 1, k) \o <<x>> \o SubSeq(sorted, k + 1, Len(sorted))

\* vector_search.py:148  results.sort(key=lambda x: x[key], reverse=True)
RECURSIVE SortDesc(_, _)
SortDesc(results, key) ==
    IF results = <<>> THEN <<>>
    ELSE InsertDesc(SortDesc(SubSeq(results, 1, Len(results) - 1), key),
                    results[Len(results)], key)

\* a cut that is not applied
Take_NoCut(results, limit) == results

\* vector_search.py:149  results[:limit], limit >= 0
Take(results, limit) == SubSeq(results, 1, Min(limit, Len(results)))

\* vector_search.py:138-149
Rank(items, similarities, limit, threshold) ==
    Take(SortDesc(FilterLoop(items, similarities, threshold, 1), "similarity_score"), limit)

\* vector_search.py:129-136 / 174-185  similarities of the candidates
Similarities(cos, kind, query, items) ==
    ComputeSimilarity(cos, EncodeText(query),
                      EncodeBatch([i \in 1..Len(items) |-> CandidateText(kind, items[i])]))

\* vector_search.py:124 / 169  if not query or not concepts
EarlyReturn(query, items) == query = <<>> \/ items = <<>>

\* a handler that lets the exception through
OnException_Reraise == [outcome |-> "raised", value |-> <<>>]

\* vector_search.py:151-153 / 200-202  except Exception: log, return []
OnException == [outcome |-> "returned", value |-> <<>>]


\* ------------------------------------------------------- inputs and tables

TA == <<"t", "a">>
TB == <<"t", "b">>
SA == <<"s", "a">>
SB == <<"s", "b">>
QUERY == <<"q", " ">>

\* the cosines the embedding model may report, in tenths
CosValues == {-2, 0, 2}

\* ChatRequest.query
Queries == {<<>>, QUERY}

\* every table the embedding model may realise for the stripped texts given
CosTables(queryTexts, texts) == [queryTexts \X texts -> CosValues]

\* the sequences over S of length at most n
SeqsUpTo(S, n) == UNION {[1..k -> S] : k \in 0..n}

\* concept rows: id is the row's position, names as stored
ConceptNames == {<<>>, <<"a">>, <<"b", " ">>}
ConceptLists ==
    {[i \in 1..Len(names) |-> [id |-> i, name |-> names[i]]] :
        names \in SeqsUpTo(ConceptNames, MaxCands)}

\* transcript objects (routes_chat.py:255-265), the fields the search reads
TranscriptTexts == {[transcript |-> TA, summary |-> <<>>],
                    [transcript |-> TB, summary |-> SA],
                    [transcript |-> <<>>, summary |-> <<>>]}
TranscriptLists ==
    {[i \in 1..Len(texts) |->
         [chunk_id |-> i, transcript |-> texts[i].transcript,
          summary |-> texts[i].summary]] :
        texts \in SeqsUpTo(TranscriptTexts, MaxCands)}

SearchThresholds == {10, 12}

\* the stripped non-empty texts an item list has the model encode
EncodedTexts(kind, items) ==
    {Strip(CandidateText(kind, items[i])) : i \in 1..Len(items)} \ {<<>>}

\* ------------------------------------------------------------ idle parts

NoReturn == [outcome |-> "pending", value |-> <<>>]

SearchIdle ==
    /\ s_pc = "idle" /\ s_kind = "concepts" /\ s_query = <<>> /\ s_items = <<>>
    /\ s_limit = 0 /\ s_threshold = 0 /\ s_embeddings = <<>>
    /\ s_similarities = <<>> /\ s_results = <<>> /\ s_path = <<>>
    /\ s_return = NoReturn

NoRequest == [query |-> <<>>, concept |-> <<>>]

\* the locals of a handler that has not run yet
ChatLocalsInit ==
    /\ all_concepts = [r \in Reqs |-> <<>>]
    /\ related_concept_results = [r \in Reqs |-> <<>>]
    /\ concept_search = [r \in Reqs |-> "none"]
    /\ next_concept = [r \in Reqs |-> 1]
    /\ all_chunks = [r \in Reqs |-> <<>>]
    /\ fetched_events = [r \in Reqs |-> <<>>]
    /\ transcript_objects = [r \in Reqs |-> <<>>]
    /\ related_concepts = [r \in Reqs |-> <<>>]
    /\ calls = [r \in Reqs |-> <<>>]
    /\ relevant_events = [r \in Reqs |-> {}]
    /\ event_content = [r \in Reqs |-> <<>>]
    /\ combined = [r \in Reqs |-> <<>>]
    /\ context_parts = [r \in Reqs |-> <<>>]
    /\ sources = [r \in Reqs |-> <<>>]
    /\ rag_prompt = [r \in Reqs |-> "none"]

ChatIdle ==
    /\ pc = [r \in Reqs |-> "idle"]
    /\ request = [r \in Reqs |-> NoRequest]
    /\ context_notes = [r \in Reqs |-> <<>>]
    /\ ChatLocalsInit

StorageEmpty ==
    /\ concepts = <<>> /\ chunk_concepts = <<>> /\ audio_chunks = <<>> /\ events = <<>>

ExtractIdle ==
    /\ x_pc = "idle" /\ x_transcript = <<>> /\ x_response = <<>> /\ x_text = <<>>
    /\ x_concepts = [py |-> "unset"] /\ x_calls = 0 /\ x_return = NoReturn

NormalizeIdle == n_pc = "idle" /\ n_name = <<>> /\ n_results = <<>>

ValidateIdle ==
    v_pc = "idle" /\ v_raw = <<>> /\ v_mentions = <<>> /\ v_outcome = "pending"

WriteIdle ==
    /\ w_pc = [p \in Paths |-> "idle"]
    /\ w_chunk_id = [p \in Paths |-> 0]
    /\ w_mentions = [p \in Paths |-> <<>>]
    /\ w_i = [p \in Paths |-> 1]
    /\ w_concept_id = [p \in Paths |-> 0]
    /\ w_inserted = [p \in Paths |-> 0]
    /\ w_runs = 0

BatchIdle ==
    /\ b_pc = "idle" /\ b_texts = <<>> /\ b_valid_texts = <<>>
    /\ b_valid_indices = <<>> /\ b_result = NoReturn

GraphIdle ==
    /\ concept_relations = <<>> /\ g_pc = "idle" /\ g_limit = 0 /\ g_event_id = 0
    /\ g_events = <<>> /\ g_chunks = <<>> /\ g_chunk_concepts = <<>>
    /\ g_concept_map = <<>> /\ g_event_concept_links = <<>>
    /\ g_nodes = <<>> /\ g_links = <<>> /\ g_response = NoReturn

RetryIdle ==
    /\ t_pc = "idle" /\ t_url = 0 /\ t_retry_count = 0 /\ t_attempts = 0 /\ t_sleeps = 0
    /\ t_transcript = <<>> /\ t_summary = <<>>
    /\ t_outcome = NoReturn /\ t_response = NoReturn

Callers == {1, 2, 3}

ModelIdle ==
    /\ m_service = 0 /\ m_model = <<>> /\ m_services = 0 /\ m_loads = 0
    /\ q_pc = [c \in Callers |-> "idle"]
    /\ q_service = [c \in Callers |-> 0] /\ q_model = [c \in Callers |-> 0]

\* supabase_client.py:72  the local `response` before any response came
NoReply == [kind |-> "unbound", status_code |-> 0]

HttpIdle ==
    /\ h_pc = "idle" /\ h_attempt = 0 /\ h_requests = 0 /\ h_sleeps = <<>>
    /\ h_replies = <<>> /\ h_response = NoReply /\ h_return = NoReturn

ServiceIdle == RetryIdle /\ ModelIdle /\ HttpIdle

\* the concept components at rest
ConceptIdle ==
    /\ ExtractIdle /\ NormalizeIdle /\ ValidateIdle /\ WriteIdle /\ BatchIdle
    /\ GraphIdle
    /\ ServiceIdle

\* ------------------------------------- one call of a search function

SearchInit ==
    /\ StorageEmpty
    /\ ChatIdle
    /\ ConceptIdle
    /\ s_pc = "call"
    /\ s_kind \in {"concepts", "transcripts"}
    /\ s_query \in Queries
    /\ s_items \in IF s_kind = "concepts" THEN ConceptLists ELSE TranscriptLists
    /\ s_limit \in 0..MaxLimit
    /\ s_threshold \in SearchThresholds
    /\ cosine \in CosTables({Strip(s_query)} \ {<<>>}, EncodedTexts(s_kind, s_items))
    /\ s_embeddings = <<>>
    /\ s_similarities = <<>>
    /\ s_results = <<>>
    /\ s_path = <<>>
    /\ s_return = NoReturn

\* vector_search.py:124-125 / 169-170
SearchEnter ==
    /\ s_pc = "call"
    /\ IF EarlyReturn(s_query, s_items)
       THEN /\ s_return' = [outcome |-> "returned", value |-> <<>>]
            /\ s_path' = <<"early">>
            /\ s_pc' = "done"
       ELSE /\ s_pc' = "encode"
            /\ UNCHANGED <<s_return, s_path>>
    /\ UNCHANGED <<s_kind, s_query, s_items, s_limit, s_threshold, s_embeddings,
                   s_similarities, s_results>>
    /\ UNCHANGED <<storageVars, cosine, conceptVars, chatVars>>

\* vector_search.py:129-133 / 174-182  encode_text and encode_batch succeed
SearchEncode ==
    /\ s_pc = "encode"
    /\ s_embeddings' =
          <<EncodeText(s_query),
            EncodeBatch([i \in 1..Len(s_items) |-> CandidateText(s_kind, s_items[i])])>>
    /\ s_path' = Append(s_path, "encoded")
    /\ s_pc' = "similarity"
    /\ UNCHANGED <<s_kind, s_query, s_items, s_limit, s_threshold,
                   s_similarities, s_results, s_return>>
    /\ UNCHANGED <<storageVars, cosine, conceptVars, chatVars>>

\* vector_search.py:151-153 / 200-202  the model raises while encoding
SearchEncodeFails ==
    /\ s_pc = "encode"
    /\ s_return' = OnException
    /\ s_path' = Append(s_path, "encode_failed")
    /\ s_pc' = "done"
    /\ UNCHANGED <<s_kind, s_query, s_items, s_limit, s_threshold, s_embeddings,
                   s_similarities, s_results>>
    /\ UNCHANGED <<storageVars, cosine, conceptVars, chatVars>>

\* vector_search.py:136 / 185  compute_similarity succeeds
SearchSimilarity ==
    /\ s_pc = "similarity"
    /\ s_similarities' = ComputeSimilarity(cosine, s_embeddings[1], s_embeddings[2])
    /\ s_path' = Append(s_path, "compared")
    /\ s_pc' = "rank"
    /\ UNCHANGED <<s_kind, s_query, s_items, s_limit, s_threshold, s_embeddings,
                   s_results, s_return>>
    /\ UNCHANGED <<storageVars, cosine, conceptVars, chatVars>>

\* vector_search.py:151-153 / 200-202  cosine_similarity raises
SearchSimilarityFails ==
    /\ s_pc = "similarity"
    /\ s_return' = OnException
    /\ s_path' = Append(s_path, "similarity_failed")
    /\ s_pc' = "done"
    /\ UNCHANGED <<s_kind, s_query, s_items, s_limit, s_threshold, s_embeddings,
                   s_similarities, s_results>>
    /\ UNCHANGED <<storageVars, cosine, conceptVars, chatVars>>

\* vector_search.py:138-149 / 187-198
SearchRank ==
    /\ s_pc = "rank"
    /\ s_results' = Rank(s_items, s_similarities, s_limit, s_threshold)
    /\ s_return' = [outcome |-> "returned", value |-> s_results']
    /\ s_path' = Append(s_path, "ranked")
    /\ s_pc' = "done"
    /\ UNCHANGED <<s_kind, s_query, s_items, s_limit, s_threshold, s_embeddings,
                   s_similarities>>
    /\ UNCHANGED <<storageVars, cosine, conceptVars, chatVars>>

SearchNext ==
    \/ SearchEnter
    \/ SearchEncode
    \/ SearchEncodeFails
    \/ SearchSimilarity
    \/ SearchSimilarityFails
    \/ SearchRank

SpecSearch == SearchInit /\ [][SearchNext]_vars


\* ------------------------------------------------- claims on the search

\* (cos + 1) / 2 of candidate i of the call, from the embedding table
ExpectedSimilarity(i) ==
    LET q == Strip(s_query)
        t == Strip(CandidateText(s_kind, s_items[i]))
    IN IF q = <<>> \/ t = <<>> THEN 10 ELSE cosine[<<q, t>>] + 10

\* the candidates of the call at or above the threshold
Passing == {i \in 1..Len(s_items) : ExpectedSimilarity(i) >= s_threshold}

\* place of candidate i among the passing ones: higher similarity first, and
\* among equals the earlier candidate first
RankOf(i) ==
    1 + Cardinality({j \in Passing :
            \/ ExpectedSimilarity(j) > ExpectedSimilarity(i)
            \/ ExpectedSimilarity(j) = ExpectedSimilarity(i) /\ j < i})

Ranked == s_pc = "done" /\ s_path # <<>> /\ s_path[Len(s_path)] = "ranked"

\* C8: whatever way the call takes, what search_concepts / search_transcripts
\* returns has at most `limit` items and each carries a similarity_score that is
\* at least the threshold.
C8_LimitAndThreshold ==
    s_pc = "done" =>
        /\ s_return.outcome = "returned"
        /\ Len(s_return.value) <= s_limit
        /\ \A k \in 1..Len(s_return.value) :
              s_return.value[k].similarity_score >= s_threshold

\* C8 witness: a ranked call in which the cut removed a passing candidate and
\* the threshold removed another.
C8_Witness ==
    /\ Ranked
    /\ Len(s_return.value) = s_limit
    /\ s_limit > 0
    /\ Cardinality(Passing) > s_limit
    /\ Cardinality(Passing) < Len(s_items)

\* C9: when the similarities were computed, the result lists exactly the
\* candidates whose rescaled similarity is at least the threshold, by
\* non-increasing similarity, equal similarities in candidate order, cut to the
\* first `limit`: the candidate of rank k is at place k, for every k <= limit.
C9_RankedStableCut ==
    Ranked =>
        /\ Len(s_return.value) = Min(s_limit, Cardinality(Passing))
        /\ \A i \in Passing :
              RankOf(i) <= s_limit =>
                 s_return.value[RankOf(i)] =
                    [similarity_score |-> ExpectedSimilarity(i)] @@ s_items[i]

\* C9 witness: two passing candidates of equal similarity, a third one above
\* them listed later in the candidate list, and a cut that drops the last.
C9_Witness ==
    /\ Ranked
    /\ Len(s_return.value) = 2
    /\ Cardinality(Passing) = 3
    /\ \E i, j, k \in Passing :
          /\ i < j /\ j < k
          /\ ExpectedSimilarity(i) = ExpectedSimilarity(j)
          /\ ExpectedSimilarity(k) > ExpectedSimilarity(i)

\* C10: the call never raises: it ends by returning, and it returns the empty
\* list when the query is empty, when there is no candidate, and when encoding
\* or the similarity computation failed.
C10_NeverRaises ==
    /\ s_return.outcome # "raised"
    /\ s_pc = "done" =>
          /\ s_return.outcome = "returned"
          /\ (s_query = <<>> \/ s_items = <<>>) => s_return.value = <<>>
          /\ (s_path # <<>> /\ s_path[Len(s_path)] \in {"encode_failed", "similarity_failed"})
                => s_return.value = <<>>

\* C10 witness: the similarity computation failed after a successful encoding
\* of a non-empty query and candidates that would have passed.
C10_Witness ==
    /\ s_pc = "done"
    /\ s_path = <<"encoded", "similarity_failed">>
    /\ Passing # {}
    /\ s_limit > 0
    /\ s_return = [outcome |-> "returned", value |-> <<>>]


\* ---------------------------------------- candidate notes for aggregation

PLAIN == <<"S", "u", "p">>
MEET == <<"M", "e", "e", "t", "1", "0">>
LOWER == <<"m", "e", "e", "t", "1">>
TF == <<"t", "f">>
SF == <<"s", "f">>

\* a note without any score key
BareNote(event_id, title, date, transcript, summary) ==
    [event_id |-> event_id, event_title |-> title, event_date |-> date,
     transcript |-> transcript, summary |-> summary]

\* the score keys a note may carry: around each threshold of the first pass
ScoreKeys == {[concept_score |-> 10], [concept_score |-> 8], [concept_score |-> 7],
              [similarity_score |-> 6], [similarity_score |-> 5],
              [similarity_score |-> 2],
              [concept_score |-> 10, similarity_score |-> 2],
              [concept_score |-> 10, similarity_score |-> 4]}

\* notes that differ in what the first pass reads: event 1 has a plain title,
\* event 2 a title with "Meet1" in it
ScoreNotes ==
    {k @@ BareNote(1, PLAIN, "2024-01-01", TA, SA) : k \in ScoreKeys}
        \cup {k @@ BareNote(2, MEET, "2024-01-01", TA, SA) : k \in ScoreKeys}
        \cup {[concept_score |-> 10, similarity_score |-> 2]
                  @@ BareNote(1, LOWER, "2024-01-01", TA, SA)}

\* notes that differ in what the second pass reads
ContentNotes ==
    LET bare == {BareNote(1, PLAIN, "2024-02-02", TB, SA),
                 BareNote(1, PLAIN, "2024-01-01", <<>>, <<>>),
                 BareNote(1, PLAIN, "2024-01-01", TA, SB),
                 BareNote(2, PLAIN, "2024-02-02", TB, SB)}
    IN bare \cup {[concept_score |-> 8] @@ n : n \in bare}

NoteSet == ScoreNotes \cup ContentNotes

\* padding in front of the tail: k notes of one event that the first pass
\* rejects, or k admitted notes of k different events
ColdPad(k) ==
    [i \in 1..k |-> [concept_score |-> 7] @@ BareNote(3, PLAIN, "2024-03-03", TF, SF)]
HotPad(k) ==
    [i \in 1..k |-> [concept_score |-> 8] @@ BareNote(100 + i, PLAIN, "2024-03-03", TF, SF)]

Pads == {ColdPad(0), ColdPad(TopN - 1), ColdPad(TopN), HotPad(MaxSources + 1)}

CandidateLists == {pad \o tail : pad \in Pads, tail \in SeqsUpTo(NoteSet, MaxTail)}


\* --------------------------------- chat_with_notes: the aggregation steps

\* routes_chat.py:285-309
Pass1Step(r) ==
    /\ pc[r] = "pass1"
    /\ relevant_events' = [relevant_events EXCEPT ![r] = Pass1(context_notes[r])]
    /\ pc' = [pc EXCEPT ![r] = "pass2"]
    /\ UNCHANGED retrievalVars
    /\ UNCHANGED <<event_content, combined, context_parts, sources, rag_prompt>>
    /\ UNCHANGED <<storageVars, cosine, conceptVars, searchVars>>

\* routes_chat.py:311-329
Pass2Step(r) ==
    /\ pc[r] = "pass2"
    /\ event_content' =
          [event_content EXCEPT ![r] = Pass2(context_notes[r], relevant_events[r])]
    /\ pc' = [pc EXCEPT ![r] = "build"]
    /\ UNCHANGED retrievalVars
    /\ UNCHANGED <<relevant_events, combined, context_parts, sources, rag_prompt>>
    /\ UNCHANGED <<storageVars, cosine, conceptVars, searchVars>>

\* routes_chat.py:331-352
BuildContext(r) ==
    /\ pc[r] = "build"
    /\ \E orders \in OrderChoices(event_content[r], 1) :
          /\ combined' = [combined EXCEPT ![r] = BuildCombined(event_content[r], orders)]
          /\ context_parts' =
                [context_parts EXCEPT ![r] = BuildContextParts(event_content[r], orders)]
    /\ sources' = [sources EXCEPT ![r] = BuildSources(event_content[r])]
    /\ pc' = [pc EXCEPT ![r] = "prompt"]
    /\ UNCHANGED retrievalVars
    /\ UNCHANGED <<relevant_events, event_content, rag_prompt>>
    /\ UNCHANGED <<storageVars, cosine, conceptVars, searchVars>>

\* routes_chat.py:357-394
ChoosePrompt(r) ==
    /\ pc[r] = "prompt"
    /\ rag_prompt' = [rag_prompt EXCEPT ![r] = ChooseTemplate(context_parts[r])]
    /\ pc' = [pc EXCEPT ![r] = "generate"]
    /\ UNCHANGED retrievalVars
    /\ UNCHANGED <<relevant_events, event_content, combined, context_parts, sources>>
    /\ UNCHANGED <<storageVars, cosine, conceptVars, searchVars>>

\* routes_chat.py:398-406  the answer is generated and the response returned
Respond(r) ==
    /\ pc[r] = "generate"
    /\ pc' = [pc EXCEPT ![r] = "done"]
    /\ UNCHANGED <<retrievalVars, aggregateVars>>
    /\ UNCHANGED <<storageVars, cosine, conceptVars, searchVars>>

\* routes_chat.py:408-413  generate_content raises: HTTP 500
GenerateFails(r) ==
    /\ pc[r] = "generate"
    /\ pc' = [pc EXCEPT ![r] = "failed"]
    /\ UNCHANGED <<retrievalVars, aggregateVars>>
    /\ UNCHANGED <<storageVars, cosine, conceptVars, searchVars>>

\* The aggregation of one request, run on a candidate list given from outside.
AggregateInit ==
    /\ StorageEmpty
    /\ SearchIdle
    /\ ConceptIdle
    /\ cosine = <<>>
    /\ pc = [r \in Reqs |-> IF r = 1 THEN "pass1" ELSE "idle"]
    /\ request = [r \in Reqs |-> NoRequest]
    /\ \E notes \in CandidateLists :
          context_notes = [r \in Reqs |-> IF r = 1 THEN notes ELSE <<>>]
    /\ ChatLocalsInit

AggregateNext ==
    \E r \in Reqs :
        \/ Pass1Step(r)
        \/ Pass2Step(r)
        \/ BuildContext(r)
        \/ ChoosePrompt(r)
        \/ Respond(r)
        \/ GenerateFails(r)

SpecAggregate == AggregateInit /\ [][AggregateNext]_vars


\* ------------------------------------------- claims on the aggregation

\* the handler of request r is past the step (a handler that failed after the
\* prompt was chosen still counts)
AfterPrompt(r) == rag_prompt[r] # "none"
AfterBuild(r) == pc[r] = "prompt" \/ AfterPrompt(r)
AfterPass1(r) == pc[r] \in {"pass2", "build"} \/ AfterBuild(r)

NoteSimilarity(note) ==
    IF "similarity_score" \in DOMAIN note THEN note.similarity_score ELSE 0
NoteConcept(note) ==
    IF "concept_score" \in DOMAIN note THEN note.concept_score ELSE 0

\* note i of request r is one the first pass admits its event for
Admitting(r, i) ==
    LET note == context_notes[r][i]
    IN /\ i <= 20
       /\ ~(Contains(note.event_title, MEET1) /\ NoteSimilarity(note) < 4)
       /\ (NoteConcept(note) >= 8 \/ NoteSimilarity(note) >= 6)

NotesOf(r, e) == {i \in 1..Len(context_notes[r]) : context_notes[r][i].event_id = e}

\* the entry of `combined` for event e (there is at most one)
CombinedOf(r, e) == {k \in 1..Len(combined[r]) : combined[r][k].event_id = e}

\* C1: once an event is admitted, the non-empty transcript of every candidate
\* note of that event, whatever the note's own scores and position, is part of
\* the event's combined transcript and of the event's context part.
C1_EventWideContent ==
    \A r \in Reqs :
        AfterBuild(r) =>
            \A i \in 1..Len(context_notes[r]) :
                LET note == context_notes[r][i]
                IN (note.event_id \in relevant_events[r] /\ note.transcript # <<>>) =>
                      \E k \in CombinedOf(r, note.event_id) :
                          /\ Contains(combined[r][k].combined_transcript, note.transcript)
                          /\ Contains(context_parts[r][k], note.transcript)

\* C1 witness: an event admitted by the note at position 20 takes the
\* transcript of a note at position 21 that fails both thresholds.
C1_Witness ==
    /\ AfterBuild(1)
    /\ Len(context_notes[1]) = 21
    /\ Admitting(1, 20)
    /\ context_notes[1][21].event_id = context_notes[1][20].event_id
    /\ NoteConcept(context_notes[1][21]) < 8
    /\ NoteSimilarity(context_notes[1][21]) < 6
    /\ context_notes[1][21].transcript = TB
    /\ context_notes[1][20].transcript = TA
    /\ \E k \in 1..Len(combined[1]) : combined[1][k].combined_transcript = TA \o SPACE \o TB

\* C2: the first pass admits exactly the events of the admitting notes among
\* the first 20: not skipped by the Meet1 rule and concept_score >= 0.4 or
\* similarity_score >= 0.3, an absent score counting as 0.
C2_AdmissionIff ==
    \A r \in Reqs :
        AfterPass1(r) =>
            relevant_events[r] =
                {context_notes[r][i].event_id :
                    i \in {j \in 1..Len(context_notes[r]) : Admitting(r, j)}}

\* C2 witness: a note at position 21 that passes the threshold test, whose
\* event stays out, next to an event admitted at position 20.
C2_Witness ==
    /\ AfterPass1(1)
    /\ Len(context_notes[1]) = 21
    /\ Admitting(1, 20)
    /\ NoteConcept(context_notes[1][21]) >= 8
    /\ ~Contains(context_notes[1][21].event_title, MEET1)
    /\ context_notes[1][21].event_id \notin relevant_events[1]
    /\ relevant_events[1] = {context_notes[1][20].event_id}

ScenarioC ==
    <<[concept_score |-> 10] @@ BareNote(1, PLAIN, "2024-01-01", TA, SA),
      [similarity_score |-> 2] @@ BareNote(2, MEET, "2024-01-01", TA, SA)>>

\* C3: the Meet1 exclusion comes before the threshold test: a note with a
\* "Meet1" title and similarity_score < 0.2 never admits its event, whatever its
\* concept_score (the event is admitted only if another note admits it), and
\* scenario C admits exactly E1.
C3_Meet1BeforeThreshold ==
    \A r \in Reqs :
        AfterPass1(r) =>
            /\ \A i \in 1..Len(context_notes[r]) :
                  LET note == context_notes[r][i]
                  IN (/\ Contains(note.event_title, MEET1)
                      /\ NoteSimilarity(note) < 4
                      /\ note.event_id \in relevant_events[r])
                        => \E j \in NotesOf(r, note.event_id) : j # i /\ Admitting(r, j)
            /\ context_notes[r] = ScenarioC => relevant_events[r] = {1}

\* C3 witness: a lone note with a "Meet1" title, concept_score 0.5 and
\* similarity_score 0.1 has been through the first pass and nothing is admitted.
C3_Witness ==
    /\ AfterPass1(1)
    /\ Len(context_notes[1]) = 1
    /\ Contains(context_notes[1][1].event_title, MEET1)
    /\ NoteConcept(context_notes[1][1]) = 10
    /\ NoteSimilarity(context_notes[1][1]) = 2
    /\ relevant_events[1] = {}

\* C4: in the combined summary of an admitted event every distinct non-empty
\* summary of the event's candidate notes occurs exactly once.
C4_SummaryOnce ==
    \A r \in Reqs :
        AfterBuild(r) =>
            \A e \in relevant_events[r] :
                /\ Cardinality(CombinedOf(r, e)) = 1
                /\ \A k \in CombinedOf(r, e) :
                      \A i \in NotesOf(r, e) :
                          context_notes[r][i].summary # <<>> =>
                              Occurrences(combined[r][k].combined_summary,
                                          context_notes[r][i].summary) = 1

\* C4 witness: two notes of an admitted event carry the same summary.
C4_Witness ==
    /\ AfterBuild(1)
    /\ \E i, j \in 1..Len(context_notes[1]) :
          /\ i < j
          /\ context_notes[1][i].event_id = context_notes[1][j].event_id
          /\ context_notes[1][i].event_id \in relevant_events[1]
          /\ context_notes[1][i].summary = SA
          /\ context_notes[1][j].summary = SA
          /\ context_notes[1][i].transcript # context_notes[1][j].transcript

\* first position of event e in the candidate list of request r
FirstPos(r, e) == CHOOSE i \in NotesOf(r, e) : \A j \in NotesOf(r, e) : i <= j

\* C5: sources has one entry (title, id, date) per admitted event, with distinct
\* ids, cut to the first 5 admitted events in candidate order, while the context
\* keeps one part for every admitted event: |sources| = min(5, admitted).
C5_SourcesCut ==
    \A r \in Reqs :
        AfterBuild(r) =>
            LET n == Cardinality(relevant_events[r])
                src == sources[r]
            IN /\ Len(src) = Min(5, n)
               /\ Len(context_parts[r]) = n
               /\ \A e \in relevant_events[r] : \E k \in 1..n :
                     Contains(context_parts[r][k],
                              <<"\nEvent: ">> \o context_notes[r][FirstPos(r, e)].event_title)
               /\ \A k \in 1..Len(src) :
                     /\ src[k].event_id \in relevant_events[r]
                     /\ src[k].event_title =
                           context_notes[r][FirstPos(r, src[k].event_id)].event_title
                     /\ src[k].event_date =
                           context_notes[r][FirstPos(r, src[k].event_id)].event_date
                     /\ \A m \in 1..Len(src) : m # k => src[m].event_id # src[k].event_id
                     /\ k = 1 + Cardinality({e \in relevant_events[r] :
                                   FirstPos(r, e) < FirstPos(r, src[k].event_id)})

\* C5 witness: more than five events are admitted.
C5_Witness ==
    /\ AfterBuild(1)
    /\ Cardinality(relevant_events[1]) = 7
    /\ Len(sources[1]) = 5
    /\ Len(context_parts[1]) = 7

\* the notes of event e carry neither transcript nor summary
FoundButEmpty(r, e) ==
    \A i \in NotesOf(r, e) :
        context_notes[r][i].transcript = <<>> /\ context_notes[r][i].summary = <<>>

\* place of admitted event e among the admitted events, in candidate order
AdmittedRank(r, e) ==
    1 + Cardinality({f \in relevant_events[r] : FirstPos(r, f) < FirstPos(r, e)})

UNTITLED == <<"U", "n", "t", "i", "t", "l", "e", "d">>

\* PostgreSQL lower() on the letters in use
LowerChar(c) == IF c = "A" THEN "a" ELSE IF c = "B" THEN "b" ELSE c
Lower(text) == [i \in 1..Len(text) |-> LowerChar(text[i])]

\* routes_chat.py:50  name=ilike.%concept_name%
ILike(value, pattern) == Contains(Lower(value), Lower(pattern))

\* routes_chat.py:46-55  the rows select(concepts, ilike, limit=1) may return:
\* positions in the table of the matching rows (no ORDER BY: any one of them)
MatchingConcepts(name) == {k \in 1..Len(concepts) : ILike(concepts[k].name, name)}

\* next((e for e in events if e["id"] == event_id), {})
EventOf(evts, event_id) ==
    IF \E k \in 1..Len(evts) : evts[k].id = event_id
    THEN evts[CHOOSE k \in 1..Len(evts) :
                 /\ evts[k].id = event_id
                 /\ \A j \in 1..(k - 1) : evts[j].id # event_id]
    ELSE <<>>

\* next((cc for cc in chunk_concepts if cc["chunk_id"] == chunk_id), {})
LinkOf(links, chunk_id) ==
    IF \E k \in 1..Len(links) : links[k].chunk_id = chunk_id
    THEN links[CHOOSE k \in 1..Len(links) :
                  /\ links[k].chunk_id = chunk_id
                  /\ \A j \in 1..(k - 1) : links[j].chunk_id # chunk_id]
    ELSE <<>>

\* routes_chat.py:142-154  the note of one chunk
ConceptNote(chunk, link, event) ==
    [chunk_id |-> chunk.id, event_id |-> chunk.event_id,
     event_title |-> Get(event, "title", UNTITLED),
     transcript |-> chunk.transcript, summary |-> chunk.summary,
     concept_score |-> Get(link, "score", DefaultLinkScore),
     event_date |-> Get(event, "started_at", "")]

\* routes_chat.py:65-165  get_notes_by_concept once the concept row is found
NotesOfConcept(concept_id) ==
    LET links == SelectSeq(chunk_concepts, LAMBDA l : l.concept_id = concept_id)
        chunks == SelectSeq(audio_chunks,
                            LAMBDA c : \E k \in 1..Len(links) : links[k].chunk_id = c.id)
        evts == SelectSeq(events,
                          LAMBDA e : \E k \in 1..Len(chunks) : chunks[k].event_id = e.id)
        notes == [k \in 1..Len(chunks) |->
                     ConceptNote(chunks[k], LinkOf(links, chunks[k].id),
                                 EventOf(evts, chunks[k].event_id))]
    IN IF links = <<>> \/ chunks = <<>> THEN <<>>
       ELSE SortDesc(notes, "concept_score")

\* routes_chat.py:36-165  concept_data["notes"], k the row the first select
\* returned (0: none)
NotesByConcept(k) == IF k = 0 THEN <<>> ELSE NotesOfConcept(concepts[k].id)

ConceptChoices(name) ==
    IF MatchingConcepts(name) = {} THEN {0} ELSE MatchingConcepts(name)

\* routes_chat.py:255-265
TranscriptObject(chunk, event) ==
    [chunk_id |-> chunk.id, event_id |-> chunk.event_id,
     event_title |-> Get(event, "title", UNTITLED),
     transcript |-> chunk.transcript, summary |-> chunk.summary,
     event_date |-> Get(event, "started_at", ""),
     concept_score |-> DirectMatchScore]

\* search_concepts / search_transcripts when nothing raises
SearchResult(cos, kind, query, items, limit, threshold) ==
    IF EarlyReturn(query, items) THEN <<>>
    ELSE Rank(items, Similarities(cos, kind, query, items), limit, threshold)

\* a handler that searches the transcripts although the concepts gave notes
DirectSearchWanted_WithNotes(notes, concept_rows) == concept_rows # <<>>

\* routes_chat.py:227  if not context_notes and all_concepts
DirectSearchWanted(notes, concept_rows) == notes = <<>> /\ concept_rows # <<>>

Called(r, call) == calls' = [calls EXCEPT ![r] = Append(@, call)]

\* routes_chat.py:190-192  an explicit concept: its notes are the candidates
ExplicitConcept(r) ==
    /\ pc[r] = "start"
    /\ request[r].concept # <<>>
    /\ \E k \in ConceptChoices(request[r].concept) :
          context_notes' = [context_notes EXCEPT ![r] = NotesByConcept(k)]
    /\ Called(r, "get_notes_by_concept")
    /\ pc' = [pc EXCEPT ![r] = "pass1"]
    /\ UNCHANGED <<request, all_concepts, related_concept_results, concept_search,
                   next_concept, all_chunks, fetched_events, transcript_objects,
                   related_concepts>>
    /\ UNCHANGED <<aggregateVars, storageVars, cosine, conceptVars, searchVars>>

\* routes_chat.py:198-205  no explicit concept: select the user's concepts
SelectConcepts(r) ==
    /\ pc[r] = "start"
    /\ request[r].concept = <<>>
    /\ all_concepts' = [all_concepts EXCEPT ![r] = concepts]
    /\ Called(r, "select concepts")
    /\ pc' = [pc EXCEPT ![r] = IF concepts # <<>> THEN "search_concepts" ELSE "pass1"]
    /\ UNCHANGED <<request, related_concept_results, concept_search, next_concept,
                   all_chunks, fetched_events, transcript_objects, context_notes,
                   related_concepts>>
    /\ UNCHANGED <<aggregateVars, storageVars, cosine, conceptVars, searchVars>>

\* routes_chat.py:408-413  a storage call of the handler raises (select's
\* raise_for_status, get_notes_by_concept's HTTPException): HTTP 500
StorageFails(r) ==
    /\ pc[r] \in {"start", "select_chunks", "select_events"}
    /\ pc' = [pc EXCEPT ![r] = "failed"]
    /\ UNCHANGED <<retrievalVars, aggregateVars, storageVars, cosine, conceptVars, searchVars>>

\* a handler that searches the transcripts whatever the concepts gave
AfterConceptLoop_AlwaysDirect(notes, concept_rows) == "select_chunks"

\* where the handler goes once the loop over related_concept_results is over
AfterConceptLoop(notes, concept_rows) ==
    IF DirectSearchWanted(notes, concept_rows) THEN "select_chunks" ELSE "pass1"

\* routes_chat.py:207-215  search_concepts returns normally
SearchConcepts(r) ==
    /\ pc[r] = "search_concepts"
    /\ LET found == SearchResult(cosine, "concepts", request[r].query, all_concepts[r],
                                 ConceptLimit, ConceptThreshold)
       IN /\ related_concept_results' = [related_concept_results EXCEPT ![r] = found]
          /\ concept_search' =
                [concept_search EXCEPT ![r] =
                    IF found = <<>> THEN "no_candidate" ELSE "found"]
          /\ pc' = [pc EXCEPT ![r] =
                       IF found = <<>>
                       THEN AfterConceptLoop(context_notes[r], all_concepts[r])
                       ELSE "concept_notes"]
    /\ Called(r, "search_concepts")
    /\ UNCHANGED <<request, all_concepts, next_concept, all_chunks, fetched_events,
                   transcript_objects, context_notes, related_concepts>>
    /\ UNCHANGED <<aggregateVars, storageVars, cosine, conceptVars, searchVars>>

\* routes_chat.py:207-215 with vector_search.py:151-153  the search fails
\* inside: the exception is logged there and [] comes back
SearchConceptsFails(r) ==
    /\ pc[r] = "search_concepts"
    /\ ~EarlyReturn(request[r].query, all_concepts[r])
    /\ related_concept_results' = [related_concept_results EXCEPT ![r] = OnException.value]
    /\ concept_search' = [concept_search EXCEPT ![r] = "failed"]
    /\ pc' = [pc EXCEPT ![r] =
                 IF OnException.outcome = "raised" THEN "failed"
                 ELSE AfterConceptLoop(context_notes[r], all_concepts[r])]
    /\ Called(r, "search_concepts")
    /\ UNCHANGED <<request, all_concepts, next_concept, all_chunks, fetched_events,
                   transcript_objects, context_notes, related_concepts>>
    /\ UNCHANGED <<aggregateVars, storageVars, cosine, conceptVars, searchVars>>

\* routes_chat.py:218-222  one turn of the loop: the notes of a related concept
ConceptNotes(r) ==
    /\ pc[r] = "concept_notes"
    /\ LET concept == related_concept_results[r][next_concept[r]]
       IN /\ \E k \in ConceptChoices(concept.name) :
                context_notes' = [context_notes EXCEPT ![r] = @ \o NotesByConcept(k)]
          /\ related_concepts' = [related_concepts EXCEPT ![r] = Append(@, concept.name)]
    /\ next_concept' = [next_concept EXCEPT ![r] = @ + 1]
    /\ pc' = [pc EXCEPT ![r] =
                 IF next_concept[r] < Len(related_concept_results[r])
                 THEN "concept_notes"
                 ELSE AfterConceptLoop(context_notes'[r], all_concepts[r])]
    /\ Called(r, "get_notes_by_concept")
    /\ UNCHANGED <<request, all_concepts, related_concept_results, concept_search,
                   all_chunks, fetched_events, transcript_objects>>
    /\ UNCHANGED <<aggregateVars, storageVars, cosine, conceptVars, searchVars>>

\* routes_chat.py:223-224  get_notes_by_concept raises: logged, next concept
ConceptNotesFails(r) ==
    /\ pc[r] = "concept_notes"
    /\ next_concept' = [next_concept EXCEPT ![r] = @ + 1]
    /\ pc' = [pc EXCEPT ![r] =
                 IF next_concept[r] < Len(related_concept_results[r])
                 THEN "concept_notes"
                 ELSE AfterConceptLoop(context_notes[r], all_concepts[r])]
    /\ Called(r, "get_notes_by_concept")
    /\ UNCHANGED <<request, all_concepts, related_concept_results, concept_search,
                   all_chunks, fetched_events, transcript_objects, context_notes,
                   related_concepts>>
    /\ UNCHANGED <<aggregateVars, storageVars, cosine, conceptVars, searchVars>>

\* routes_chat.py:231-238
SelectChunks(r) ==
    /\ pc[r] = "select_chunks"
    /\ all_chunks' = [all_chunks EXCEPT ![r] = Take(audio_chunks, ChunkLimit)]
    /\ Called(r, "select audio_chunks")
    /\ pc' = [pc EXCEPT ![r] = IF audio_chunks # <<>> THEN "select_events" ELSE "pass1"]
    /\ UNCHANGED <<request, all_concepts, related_concept_results, concept_search,
                   next_concept, fetched_events, transcript_objects, context_notes,
                   related_concepts>>
    /\ UNCHANGED <<aggregateVars, storageVars, cosine, conceptVars, searchVars>>

\* routes_chat.py:240-265
SelectEvents(r) ==
    /\ pc[r] = "select_events"
    /\ LET evts == SelectSeq(events,
                      LAMBDA e : \E k \in 1..Len(all_chunks[r]) :
                                    all_chunks[r][k].event_id = e.id)
       IN /\ fetched_events' = [fetched_events EXCEPT ![r] = evts]
          /\ transcript_objects' =
                [transcript_objects EXCEPT ![r] =
                    [k \in 1..Len(all_chunks[r]) |->
                        TranscriptObject(all_chunks[r][k],
                                         EventOf(evts, all_chunks[r][k].event_id))]]
    /\ Called(r, "select events")
    /\ pc' = [pc EXCEPT ![r] = "search_transcripts"]
    /\ UNCHANGED <<request, all_concepts, related_concept_results, concept_search,
                   next_concept, all_chunks, context_notes, related_concepts>>
    /\ UNCHANGED <<aggregateVars, storageVars, cosine, conceptVars, searchVars>>

\* routes_chat.py:268-276  search_transcripts returns normally
SearchTranscripts(r) ==
    /\ pc[r] = "search_transcripts"
    /\ context_notes' =
          [context_notes EXCEPT ![r] =
              @ \o SearchResult(cosine, "transcripts", request[r].query,
                                transcript_objects[r], TranscriptLimit,
                                TranscriptThreshold)]
    /\ Called(r, "search_transcripts")
    /\ pc' = [pc EXCEPT ![r] = "pass1"]
    /\ UNCHANGED <<request, all_concepts, related_concept_results, concept_search,
                   next_concept, all_chunks, fetched_events, transcript_objects,
                   related_concepts>>
    /\ UNCHANGED <<aggregateVars, storageVars, cosine, conceptVars, searchVars>>

\* routes_chat.py:268-276 with vector_search.py:200-202  the search fails inside
SearchTranscriptsFails(r) ==
    /\ pc[r] = "search_transcripts"
    /\ ~EarlyReturn(request[r].query, transcript_objects[r])
    /\ context_notes' = [context_notes EXCEPT ![r] = @ \o OnException.value]
    /\ Called(r, "search_transcripts")
    /\ pc' = [pc EXCEPT ![r] = IF OnException.outcome = "raised" THEN "failed" ELSE "pass1"]
    /\ UNCHANGED <<request, all_concepts, related_concept_results, concept_search,
                   next_concept, all_chunks, fetched_events, transcript_objects,
                   related_concepts>>
    /\ UNCHANGED <<aggregateVars, storageVars, cosine, conceptVars, searchVars>>


\* ------------------------------------------------- the chat pipeline

EVENTS == <<[id |-> 1, title |-> PLAIN, started_at |-> "2024-01-01"],
            [id |-> 2, title |-> MEET, started_at |-> "2024-02-02"]>>

CHUNKS == <<[id |-> 1, event_id |-> 1, transcript |-> TA, summary |-> SA],
            [id |-> 2, event_id |-> 1, transcript |-> TB, summary |-> SA],
            [id |-> 3, event_id |-> 2, transcript |-> TB, summary |-> <<>>]>>

CONCEPT_A == [id |-> 1, name |-> <<"a">>]
CONCEPT_AB == [id |-> 2, name |-> <<"a", "b">>]

ConceptTables == {<<>>, <<CONCEPT_A>>, <<CONCEPT_AB, CONCEPT_A>>}

LinkTables ==
    {<<>>,
     <<[chunk_id |-> 3, concept_id |-> 1, score |-> 2]>>,
     <<[chunk_id |-> 1, concept_id |-> 1, score |-> 20],
       [chunk_id |-> 3, concept_id |-> 1, score |-> 2],
       [chunk_id |-> 1, concept_id |-> 2, score |-> 6],
       [chunk_id |-> 2, concept_id |-> 2, score |-> 20]>>}

\* the embedding model's cosines of the query with the names and chunk texts
PipelineCosTables ==
    {[p \in {<<"q">>} \X {<<"a">>, <<"a", "b">>, SA, TB} |->
         IF p[2] = <<"a">> THEN a
         ELSE IF p[2] = <<"a", "b">> THEN ab
         ELSE IF p[2] = SA THEN sa ELSE 0] :
        a \in {-2, 0}, ab \in {-2, 2}, sa \in {0, 2}}

Requests == {[query |-> QUERY, concept |-> <<>>],
             [query |-> <<>>, concept |-> <<>>],
             [query |-> QUERY, concept |-> <<"A">>]}

Init ==
    /\ SearchIdle
    /\ ConceptIdle
    /\ events = EVENTS
    /\ audio_chunks \in {<<>>, CHUNKS}
    /\ concepts \in ConceptTables
    /\ chunk_concepts \in IF audio_chunks = <<>> \/ concepts = <<>> THEN {<<>>} ELSE LinkTables
    /\ cosine \in PipelineCosTables
    /\ pc = [r \in Reqs |-> "start"]
    /\ request \in [Reqs -> Requests]
    /\ context_notes = [r \in Reqs |-> <<>>]
    /\ ChatLocalsInit

Next ==
    \E r \in Reqs :
        \/ ExplicitConcept(r)
        \/ SelectConcepts(r)
        \/ StorageFails(r)
        \/ SearchConcepts(r)
        \/ SearchConceptsFails(r)
        \/ ConceptNotes(r)
        \/ ConceptNotesFails(r)
        \/ SelectChunks(r)
        \/ SelectEvents(r)
        \/ SearchTranscripts(r)
        \/ SearchTranscriptsFails(r)
        \/ Pass1Step(r)
        \/ Pass2Step(r)
        \/ BuildContext(r)
        \/ ChoosePrompt(r)
        \/ Respond(r)
        \/ GenerateFails(r)

Spec == Init /\ [][Next]_vars


\* ---------------------------------------------- claims on the pipeline

\* what the prompt-building step of request r has in front of it
PromptInputs(r) ==
    <<related_concept_results[r], related_concepts[r], context_notes[r],
      context_parts[r], sources[r], rag_prompt[r]>>

\* C7: "no candidate passed the threshold" and "the semantic search itself
\* failed" are distinguishable: of two requests with the same query, one whose
\* concept search failed and one whose concept search found no candidate at or
\* above the threshold, the prompt-building steps are in different states.
C7_FailureDistinguishable ==
    \A r1, r2 \in Reqs :
        (/\ AfterPrompt(r1) /\ AfterPrompt(r2)
         /\ request[r1] = request[r2]
         /\ concept_search[r1] = "failed"
         /\ concept_search[r2] = "no_candidate")
            => PromptInputs(r1) # PromptInputs(r2)


\* ------------------------------------------------------ concept_extractor

\* concept_extractor.py:74  concepts[:10]
MaxExtracted == 10
\* concept_extractor.py:80  len(name) >= 2
MinNameLen == 2
\* concept_extractor.py:80  1.0 <= score, in twentieths
MinExtractScore == 20
\* concept_extractor.py:80  score <= 5.0, in twentieths
MaxExtractScore == 100

\* Python values.  A value is a record tagged with its type: a dict carries
\* its items as a record d (a key is present or not), a str its characters,
\* a float its value in twentieths, a list its items.
PyDict(d) == [py |-> "dict", d |-> d]
PyStr(s) == [py |-> "str", s |-> s]
PyFloat(x) == [py |-> "float", x |-> x]
PyList(items) == [py |-> "list", items |-> items]
PyNone == [py |-> "NoneType"]
Unset == [py |-> "unset"]

\* str.lower() on the letters in use
StrLowerChar(c) ==
    CASE c = "A" -> "a" [] c = "I" -> "i" [] c = "T" -> "t" [] OTHER -> c
StrLower(s) == [i \in 1..Len(s) |-> StrLowerChar(s[i])]

\* str.startswith(prefix)
StartsWith(text, prefix) ==
    Len(text) >= Len(prefix) /\ SubSeq(text, 1, Len(prefix)) = prefix

\* text[k:-3]
CutFence(text, k) == SubSeq(text, k + 1, Len(text) - 3)

\* the character U+0060, written by name
BACKTICK == "backtick"
FENCE == <<BACKTICK, BACKTICK, BACKTICK>>
FENCE_JSON == FENCE \o <<"j", "s", "o", "n">>

\* a cleaning that forgets the closing fence
StripFence_OpenOnly(text) ==
    IF StartsWith(text, FENCE_JSON) THEN Strip(SubSeq(text, 8, Len(text)))
    ELSE IF StartsWith(text, FENCE) THEN Strip(SubSeq(text, 4, Len(text)))
    ELSE text

\* concept_extractor.py:64-67
StripFence(text) ==
    IF StartsWith(text, FENCE_JSON) THEN Strip(CutFence(text, 7))
    ELSE IF StartsWith(text, FENCE) THEN Strip(CutFence(text, 3))
    ELSE text

\* JSON texts.  A text is a sequence of lexemes: the one-character strings of
\* the fences, the brackets, the comma and the whitespace, and one lexeme for
\* each complete JSON value, named in the table JsonValue by what json.loads
\* makes of it.  A value lexeme stands for three characters of text or more.
NAME_PRICING == <<"p", "r", "i", "c", "i", "n", "g", " ", "m", "o", "d", "e", "l">>
NAME_ONBOARDING == <<"o", "n", "b", "o", "a", "r", "d", "i", "n", "g">>

JsonValue ==
    [v \in {"{pricing}", "{onboarding}", "{AI Tools}", "{ml}", "{a}", "{faint}",
            "{loud}", "{noscore}", "'pricing'", "{high}", "{'4.5'}", "{null}",
            "{quoted}"} |->
        CASE v = "{pricing}" -> PyDict([name |-> PyStr(NAME_PRICING), score |-> PyFloat(84)])
          [] v = "{onboarding}" -> PyDict([name |-> PyStr(NAME_ONBOARDING), score |-> PyFloat(76)])
          [] v = "{AI Tools}" ->
                PyDict([name |-> PyStr(<<" ", "A", "I", " ", "T", "o", "o", "l", "s", " ">>),
                        score |-> PyFloat(100)])
          [] v = "{ml}" -> PyDict([name |-> PyStr(<<"m", "l">>), score |-> PyFloat(20)])
          [] v = "{a}" -> PyDict([name |-> PyStr(<<" ", "a", " ">>), score |-> PyFloat(60)])
          [] v = "{faint}" -> PyDict([name |-> PyStr(<<"d", "e", "v">>), score |-> PyFloat(19)])
          [] v = "{loud}" -> PyDict([name |-> PyStr(<<"o", "p", "s">>), score |-> PyFloat(101)])
          [] v = "{noscore}" -> PyDict([name |-> PyStr(<<"x", "y">>)])
          [] v = "'pricing'" -> PyStr(<<"p", "r", "i", "c", "i", "n", "g">>)
          [] v = "{high}" ->
                PyDict([name |-> PyStr(<<"r", "i", "s", "k">>),
                        score |-> PyStr(<<"h", "i", "g", "h">>)])
          [] v = "{'4.5'}" ->
                PyDict([name |-> PyStr(<<"c", "o", "s", "t">>),
                        score |-> PyStr(<<"4", ".", "5">>)])
          [] v = "{null}" -> PyDict([name |-> PyNone, score |-> PyFloat(40)])
          [] v = "{quoted}" ->
                PyDict([name |-> PyStr(<<"o", "'", "r", "e", "i", "l", "l", "y">>),
                        score |-> PyFloat(80)])]

IsValue(lexeme) == lexeme \in DOMAIN JsonValue

\* the tokens of a text: JSON whitespace between tokens carries no meaning
Tokens(text) == SelectSeq(text, LAMBDA c : ~IsSpace(c))

\* tokens k, k+2, ... are values and the tokens between them are commas
RECURSIVE IsValueList(_, _)
IsValueList(tokens, k) ==
    IF k > Len(tokens) THEN FALSE
    ELSE /\ IsValue(tokens[k])
         /\ \/ k = Len(tokens)
            \/ k + 1 < Len(tokens) /\ tokens[k + 1] = "," /\ IsValueList(tokens, k + 2)

\* json.loads(text): [ok, value]; ok is FALSE for a JSONDecodeError
JsonLoads(text) ==
    LET tokens == Tokens(text)
        n == Len(tokens)
    IN IF n = 1 /\ IsValue(tokens[1])
       THEN [ok |-> TRUE, value |-> JsonValue[tokens[1]]]
       ELSE IF n >= 2 /\ tokens[1] = "[" /\ tokens[n] = "]"
                 /\ (n = 2 \/ IsValueList(SubSeq(tokens, 2, n - 1), 1))
       THEN [ok |-> TRUE,
             value |-> PyList([i \in 1..((n - 1) \div 2) |-> JsonValue[tokens[2 * i]]])]
       ELSE [ok |-> FALSE, value |-> Unset]


\* str(value)
ToStr(value) ==
    CASE value.py = "str" -> value.s
      [] value.py = "NoneType" -> <<"N", "o", "n", "e">>

DigitValue == [c \in {"0", "1", "2", "3", "4", "5", "6", "7", "8", "9"} |->
                  CASE c = "0" -> 0 [] c = "1" -> 1 [] c = "2" -> 2 [] c = "3" -> 3
                    [] c = "4" -> 4 [] c = "5" -> 5 [] c = "6" -> 6 [] c = "7" -> 7
                    [] c = "8" -> 8 [] c = "9" -> 9]
IsDigit(c) == c \in DOMAIN DigitValue

\* float(s) of a str, in twentieths, for the numerals d and d.d; ok is FALSE
\* for the ValueError of a text that is no numeral
StrToFloat(s) ==
    LET t == Strip(s)
    IN IF Len(t) = 1 /\ IsDigit(t[1])
       THEN [ok |-> TRUE, x |-> 20 * DigitValue[t[1]]]
       ELSE IF Len(t) = 3 /\ IsDigit(t[1]) /\ t[2] = "." /\ IsDigit(t[3])
       THEN [ok |-> TRUE, x |-> 20 * DigitValue[t[1]] + 2 * DigitValue[t[3]]]
       ELSE [ok |-> FALSE, x |-> 0]

\* a conversion that makes 0.0 of what is no number
ToFloat_Lenient(value) ==
    CASE value.py = "float" -> [ok |-> TRUE, x |-> value.x]
      [] value.py = "str" ->
            [ok |-> TRUE, x |-> IF StrToFloat(value.s).ok THEN StrToFloat(value.s).x ELSE 0]
      [] OTHER -> [ok |-> TRUE, x |-> 0]

\* float(value): ok is FALSE for a ValueError or a TypeError
ToFloat(value) ==
    CASE value.py = "float" -> [ok |-> TRUE, x |-> value.x]
      [] value.py = "str" -> StrToFloat(value.s)
      [] OTHER -> [ok |-> FALSE, x |-> 0]

\* value[:10]: ok is FALSE where slicing raises (a dict, a number, None)
Slice(value, n) ==
    CASE value.py = "list" ->
            [ok |-> TRUE, items |-> SubSeq(value.items, 1, Min(n, Len(value.items)))]
      [] value.py = "str" ->
            [ok |-> TRUE, items |-> [i \in 1..Min(n, Len(value.s)) |-> PyStr(<<value.s[i]>>)]]
      [] OTHER -> [ok |-> FALSE, items |-> <<>>]

\* concept_extractor.py:75  isinstance(concept, dict) and both keys present
IsCandidate(concept) ==
    concept.py = "dict" /\ "name" \in DOMAIN concept.d /\ "score" \in DOMAIN concept.d

\* concept_extractor.py:76
CandidateName(concept) == Strip(StrLower(ToStr(concept.d.name)))

\* concept_extractor.py:80
NameAndScoreValid(name, score) ==
    name # <<>> /\ Len(name) >= MinNameLen
    /\ MinExtractScore <= score /\ score <= MaxExtractScore

\* concept_extractor.py:81-86
ExtractedMention(name, score) ==
    [name |-> name, score |-> score, from_sec |-> "None", to_sec |-> "None"]

\* concept_extractor.py:74-86  the loop from element k on: [raised, value]
RECURSIVE ValidateLoop(_, _, _)
ValidateLoop(items, k, valid_concepts) ==
    IF k > Len(items) THEN [raised |-> FALSE, value |-> valid_concepts]
    ELSE IF ~IsCandidate(items[k]) THEN ValidateLoop(items, k + 1, valid_concepts)
    ELSE LET name == CandidateName(items[k])
             score == ToFloat(items[k].d.score)
         IN IF ~score.ok THEN [raised |-> TRUE, value |-> <<>>]
            ELSE IF NameAndScoreValid(name, score.x)
            THEN ValidateLoop(items, k + 1,
                              Append(valid_concepts, ExtractedMention(name, score.x)))
            ELSE ValidateLoop(items, k + 1, valid_concepts)

\* concept_extractor.py:73-89
ValidConcepts(parsed) ==
    LET first == Slice(parsed, MaxExtracted)
    IN IF ~first.ok THEN [raised |-> TRUE, value |-> <<>>]
       ELSE ValidateLoop(first.items, 1, <<>>)

\* a handler that lets the exception through
OnExtractError_Reraise == [outcome |-> "raised", value |-> <<>>]

\* concept_extractor.py:96-98  except Exception: log, return []
OnExtractError == [outcome |-> "returned", value |-> <<>>]

\* concept_extractor.py:91-94  except json.JSONDecodeError: log, return []
OnDecodeError == [outcome |-> "returned", value |-> <<>>]

\* concept_extractor.py:27  not transcript or not transcript.strip()
EmptyTranscript(transcript) == transcript = <<>> \/ Strip(transcript) = <<>>


\* ---------------------------- one call of extract_concepts_from_transcript

\* Longest freely chosen tail of a response array (after the padding).
MaxElems == 2

\* the transcripts tried: the function reads a transcript only to see whether
\* it is empty, and to paste it into the prompt
TRANSCRIPT == <<"W", "e", " ", "d", "i", "s", "c", "u", "s", "s", "e", "d">>
Transcripts == {<<>>, <<" ", "\n">>, TRANSCRIPT}

\* k array elements that all pass the validation
KeptPad(k) ==
    [i \in 1..k |-> CASE i % 3 = 1 -> "{pricing}" [] i % 3 = 2 -> "{onboarding}"
                      [] OTHER -> "{ml}"]

\* the response arrays with a freely chosen tail of at most n elements
ResponseArrays(n) ==
    {KeptPad(k) \o tail : k \in {0, MaxExtracted - 1},
                          tail \in SeqsUpTo(DOMAIN JsonValue, n)}

\* the text of a JSON array
ArrayText(items) ==
    <<"[">> \o Join([i \in 1..Len(items) |-> <<items[i]>>], <<",", " ">>) \o <<"]">>

\* a text inside an opening fence and a closing fence, each on its own line
Fenced(open, text) == open \o <<"\n">> \o text \o <<"\n">> \o FENCE

\* the ways a response carries a JSON text
Wrappings(text) ==
    {text,
     <<" ">> \o text \o <<"\n">>,
     Fenced(FENCE_JSON, text),
     Fenced(FENCE, text),
     Fenced(FENCE_JSON, text) \o <<"\n">>,
     FENCE_JSON \o <<"\n">> \o text}

\* response.text of the generative collaborator
Responses(n) ==
    UNION {Wrappings(ArrayText(items)) : items \in ResponseArrays(n)}
    \cup Wrappings(<<"{pricing}">>)
    \cup {<<"'pricing'">>, <<"j", "s", "o", "n">>, <<>>, <<"[", "{ml}">>,
          <<"[", "{ml}", ",", "]">>}

ExtractInit ==
    /\ ServiceIdle
    /\ StorageEmpty /\ ChatIdle /\ SearchIdle /\ cosine = <<>>
    /\ NormalizeIdle /\ ValidateIdle /\ WriteIdle /\ BatchIdle /\ GraphIdle
    /\ x_pc = "call"
    /\ x_transcript \in Transcripts
    /\ x_response = <<>> /\ x_text = <<>> /\ x_concepts = Unset
    /\ x_calls = 0 /\ x_return = NoReturn

extractOthers ==
    <<storageVars, cosine, chatVars, searchVars, normalizeVars, validateVars,
      writeVars, batchVars, graphVars, serviceVars>>

\* concept_extractor.py:26-29
ExtractEnter ==
    /\ x_pc = "call"
    /\ IF EmptyTranscript(x_transcript)
       THEN /\ x_return' = [outcome |-> "returned", value |-> <<>>]
            /\ x_pc' = "done"
       ELSE /\ x_pc' = "generate"
            /\ UNCHANGED x_return
    /\ UNCHANGED <<x_transcript, x_response, x_text, x_concepts, x_calls>>
    /\ UNCHANGED extractOthers

\* concept_extractor.py:60-61  the collaborator answers
ExtractGenerate(responses) ==
    /\ x_pc = "generate"
    /\ \E response \in responses :
          /\ x_response' = response
          /\ x_text' = Strip(response)
    /\ x_calls' = x_calls + 1
    /\ x_pc' = "clean"
    /\ UNCHANGED <<x_transcript, x_concepts, x_return>>
    /\ UNCHANGED extractOthers

\* concept_extractor.py:60-61, 96-98  generate_content or response.text raises
ExtractGenerateFails ==
    /\ x_pc = "generate"
    /\ x_calls' = x_calls + 1
    /\ x_return' = OnExtractError
    /\ x_pc' = "done"
    /\ UNCHANGED <<x_transcript, x_response, x_text, x_concepts>>
    /\ UNCHANGED extractOthers

\* concept_extractor.py:64-67
ExtractClean ==
    /\ x_pc = "clean"
    /\ x_text' = StripFence(x_text)
    /\ x_pc' = "parse"
    /\ UNCHANGED <<x_transcript, x_response, x_concepts, x_calls, x_return>>
    /\ UNCHANGED extractOthers

\* concept_extractor.py:69-70, 91-94
ExtractParse ==
    /\ x_pc = "parse"
    /\ LET parsed == JsonLoads(x_text)
       IN IF parsed.ok
          THEN /\ x_concepts' = parsed.value
               /\ x_pc' = "validate"
               /\ UNCHANGED x_return
          ELSE /\ x_return' = OnDecodeError
               /\ x_pc' = "done"
               /\ UNCHANGED x_concepts
    /\ UNCHANGED <<x_transcript, x_response, x_text, x_calls>>
    /\ UNCHANGED extractOthers

\* concept_extractor.py:73-89, 96-98
ExtractValidate ==
    /\ x_pc = "validate"
    /\ LET valid_concepts == ValidConcepts(x_concepts)
       IN x_return' = IF valid_concepts.raised THEN OnExtractError
                      ELSE [outcome |-> "returned", value |-> valid_concepts.value]
    /\ x_pc' = "done"
    /\ UNCHANGED <<x_transcript, x_response, x_text, x_concepts, x_calls>>
    /\ UNCHANGED extractOthers

ExtractNext ==
    \/ ExtractEnter
    \/ ExtractGenerate(Responses(MaxElems))
    \/ ExtractGenerateFails
    \/ ExtractClean
    \/ ExtractParse
    \/ ExtractValidate

SpecExtract == ExtractInit /\ [][ExtractNext]_vars


\* the result of the function on a response, as one value
\* (concept_extractor.py:61-98)
ExtractResult(response) ==
    LET parsed == JsonLoads(StripFence(Strip(response)))
    IN IF ~parsed.ok THEN OnDecodeError
       ELSE LET valid_concepts == ValidConcepts(parsed.value)
            IN IF valid_concepts.raised THEN OnExtractError
               ELSE [outcome |-> "returned", value |-> valid_concepts.value]


\* ------------------------------------------- claims on concept extraction

ExtractDone == x_pc = "done"

\* the response parsed to a JSON array
ParsedArray == x_concepts.py = "list"

\* a score that is a number between 1.0 and 5.0
ScoreWithinBounds(value) ==
    ToFloat(value).ok /\ 20 <= ToFloat(value).x /\ ToFloat(value).x <= 100

\* an array element the claim keeps
Eligible(element) ==
    /\ element.py = "dict"
    /\ {"name", "score"} \subseteq DOMAIN element.d
    /\ Len(Strip(StrLower(ToStr(element.d.name)))) >= 2
    /\ ScoreWithinBounds(element.d.score)

\* the name and score of the mentions the claim expects of an array
ExpectedMentions(items) ==
    LET first == SubSeq(items, 1, Min(10, Len(items)))
        kept == SelectSeq(first, Eligible)
    IN [i \in 1..Len(kept) |->
           <<Strip(StrLower(ToStr(kept[i].d.name))), ToFloat(kept[i].d.score).x>>]

ReturnedMentions ==
    [i \in 1..Len(x_return.value) |-> <<x_return.value[i].name, x_return.value[i].score>>]

IsLowerTrimmed(name) == name = Strip(name) /\ name = StrLower(name)

\* C11: when the response parses to a JSON array, the function returns exactly
\* the elements among the first 10 that are mappings with `name` and `score`,
\* a lowercased trimmed name of length 2 or more and a score from 1.0 to 5.0,
\* in their order: at most 10 mentions, each with a lowercase trimmed name.
C11_KeptSubsequence ==
    (ExtractDone /\ ParsedArray) =>
        /\ x_return.outcome = "returned"
        /\ ReturnedMentions = ExpectedMentions(x_concepts.items)
        /\ Len(x_return.value) <= 10
        /\ \A i \in 1..Len(x_return.value) : IsLowerTrimmed(x_return.value[i].name)

\* every element of the array that has both keys has a score float() converts
AllScoresConvert ==
    \A i \in 1..Min(10, Len(x_concepts.items)) :
        IsCandidate(x_concepts.items[i]) => ToFloat(x_concepts.items[i].d.score).ok

\* C11 where no conversion fails
C11_KeptWhenScoresConvert ==
    (ExtractDone /\ ParsedArray /\ AllScoresConvert) =>
        /\ x_return.outcome = "returned"
        /\ ReturnedMentions = ExpectedMentions(x_concepts.items)

\* C12: the function never raises: an empty or whitespace-only transcript
\* gives the empty list without a call of the generative collaborator, and a
\* response that is no JSON, like any exception of the round trip, gives the
\* empty list.
C12_ExtractNeverRaises ==
    /\ x_return.outcome # "raised"
    /\ ExtractDone => x_return.outcome = "returned"
    /\ (ExtractDone /\ EmptyTranscript(x_transcript)) =>
            x_return.value = <<>> /\ x_calls = 0
    /\ (ExtractDone /\ ~EmptyTranscript(x_transcript) /\ x_concepts = Unset) =>
            x_return.value = <<>>
    /\ (ExtractDone /\ x_concepts # Unset /\ ValidConcepts(x_concepts).raised) =>
            x_return.value = <<>>

\* a response that is no JSON was answered with the empty list
C12_Witness ==
    /\ ExtractDone /\ x_calls = 1 /\ x_text = <<"j", "s", "o", "n">>
    /\ x_return = [outcome |-> "returned", value |-> <<>>]

SCENARIO_A == Fenced(FENCE_JSON, ArrayText(<<"{pricing}", "{onboarding}">>))

\* what the response holds between an opening fence and a closing fence, each
\* on its own line
Inside(open) == SubSeq(x_response, Len(open) + 2, Len(x_response) - 4)

\* the text of a JSON array
IsArrayText(text) == JsonLoads(text).ok /\ JsonLoads(text).value.py = "list"

\* C13: a JSON array inside an opening ```json or ``` fence and a closing ```
\* fence gives the mentions the bare array gives; the response of scenario A
\* gives two mentions, lowercase and within the score bounds.
C13_FenceTransparent ==
    ExtractDone =>
        /\ \A open \in {FENCE_JSON, FENCE} :
              (x_response = Fenced(open, Inside(open)) /\ IsArrayText(Inside(open)))
                  => x_return = ExtractResult(Inside(open))
        /\ x_response = SCENARIO_A =>
              /\ Len(x_return.value) = 2
              /\ \A i \in 1..2 :
                    /\ IsLowerTrimmed(x_return.value[i].name)
                    /\ 20 <= x_return.value[i].score
                    /\ x_return.value[i].score <= 100

\* scenario A was answered with its two mentions
C13_Witness ==
    /\ ExtractDone /\ x_response = SCENARIO_A
    /\ ReturnedMentions = <<<<NAME_PRICING, 84>>, <<NAME_ONBOARDING, 76>>>>


\* --------------------------------------------------------- concept_models

\* concept_models.py:8  Field(min_length=1)
MinRawNameLen == 1
\* concept_models.py:8  Field(max_length=200)
MaxRawNameLen == 200
\* concept_models.py:9  Field(ge=0.1), in twentieths
MinMentionScore == 2
\* concept_models.py:9  Field(le=5.0), in twentieths
MaxMentionScore == 100
\* concept_models.py:32  Field(max_items=20)
MaxMentions == 20

QUOTE == "\""
APOSTROPHE == "'"

\* str.replace(old, "") of a single character
Remove(s, old) == SelectSeq(s, LAMBDA c : c # old)

\* concept_models.py:16
Normalized(v) == Remove(Remove(Strip(StrLower(v)), QUOTE), APOSTROPHE)

\* concept_models.py:8, 13-19  the field constraints, then validate_name:
\* ok is FALSE for a ValidationError
ValidateName(v) ==
    IF Len(v) < MinRawNameLen \/ Len(v) > MaxRawNameLen
    THEN [ok |-> FALSE, name |-> <<>>]
    ELSE [ok |-> Len(Normalized(v)) >= 1, name |-> Normalized(v)]

\* concept_models.py:9  the constraint on score
ValidateScore(score) == MinMentionScore <= score /\ score <= MaxMentionScore

\* ------------- validate_name applied to a name, then to its own result

\* Longest raw name tried.
MaxName == 3

RawNames(n) == SeqsUpTo({"A", "a", " ", QUOTE, APOSTROPHE}, n)

NormalizeInit ==
    /\ ServiceIdle
    /\ StorageEmpty /\ ChatIdle /\ SearchIdle /\ cosine = <<>>
    /\ ExtractIdle /\ ValidateIdle /\ WriteIdle /\ BatchIdle /\ GraphIdle
    /\ n_pc = "first"
    /\ n_name \in RawNames(MaxName)
    /\ n_results = <<>>

normalizeOthers ==
    <<storageVars, cosine, chatVars, searchVars, extractVars, validateVars,
      writeVars, batchVars, graphVars, serviceVars>>

\* concept_models.py:13-19  the validator accepts the name it is given
NormalizeAccept ==
    /\ n_pc \in {"first", "second"}
    /\ ValidateName(n_name).ok
    /\ n_results' = Append(n_results, ValidateName(n_name).name)
    /\ n_name' = ValidateName(n_name).name
    /\ n_pc' = IF n_pc = "first" THEN "second" ELSE "done"
    /\ UNCHANGED normalizeOthers

\* concept_models.py:17-18  the validator raises
NormalizeReject ==
    /\ n_pc \in {"first", "second"}
    /\ ~ValidateName(n_name).ok
    /\ n_pc' = "rejected"
    /\ UNCHANGED <<n_name, n_results>>
    /\ UNCHANGED normalizeOthers

NormalizeNext == NormalizeAccept \/ NormalizeReject

SpecNormalize == NormalizeInit /\ [][NormalizeNext]_vars

\* C14: normalization is idempotent: a name that normalizes successfully
\* normalizes to itself when normalized again, also where whitespace sits
\* directly inside quote characters.
C14_NormalizeIdempotent ==
    (n_pc \in {"done", "rejected"} /\ Len(n_results) >= 1) =>
        Len(n_results) = 2 /\ n_results[2] = n_results[1]


\* ------------------------ construction of one ConceptUpsertRequest

\* Longest freely chosen tail of a submitted mention list (after the padding).
MaxRawTail == 2

\* concept_models.py:6-19  ConceptMention(name=..., score=...) of a raw
\* mention: ok is FALSE for a ValidationError
ConceptMention(raw) ==
    [ok |-> ValidateName(raw.name).ok /\ ValidateScore(raw.score),
     mention |-> [name |-> ValidateName(raw.name).name, score |-> raw.score,
                  from_sec |-> Get(raw, "from_sec", "None"),
                  to_sec |-> Get(raw, "to_sec", "None")]]

\* concept_models.py:40  names = [mention.name for mention in v]
MentionNames(v) == [i \in 1..Len(v) |-> v[i].name]

\* a validator that compares the names as submitted
HasDuplicates_Raw(names) ==
    Len(names) # Cardinality({v_raw[i].name : i \in 1..Len(v_raw)})

\* concept_models.py:41  len(names) != len(set(names))
HasDuplicates(names) == Len(names) # Cardinality(Range(names))

\* concept_models.py:34-44  validate_mentions: the error it raises, or "none"
ValidateMentionsError(v) ==
    IF v = <<>> THEN "empty"
    ELSE IF HasDuplicates(MentionNames(v)) THEN "duplicate"
    ELSE "none"

\* the names of the padding mentions: twenty names, all different
PadLetters == <<"b", "c", "d", "e", "f", "g", "h", "i", "j", "k",
                "l", "m", "n", "o", "p", "q", "r", "s", "t", "u">>
PadMentions(k) == [i \in 1..k |-> [name |-> <<"p", PadLetters[i]>>, score |-> 60]]

RAW_AI_UPPER == <<QUOTE, "A", "I", QUOTE>>
RAW_AI_LOWER == <<APOSTROPHE, "a", "i", APOSTROPHE>>
RAW_AI_SPACED == <<APOSTROPHE, " ", "a", "i", APOSTROPHE>>

RawMentionNames ==
    {RAW_AI_UPPER, RAW_AI_LOWER, RAW_AI_SPACED, <<" ", "a", "i">>, <<"a">>,
     <<QUOTE>>, <<>>}
RawMentions ==
    {[name |-> name, score |-> score] :
        name \in RawMentionNames, score \in {1, MinMentionScore, MaxMentionScore}}

\* the requests with a freely chosen tail of at most n mentions
RawRequests(n) ==
    {PadMentions(k) \o tail :
        k \in {0, MaxMentions - 1}, tail \in SeqsUpTo(RawMentions, n)}

ValidateInit ==
    /\ ServiceIdle
    /\ StorageEmpty /\ ChatIdle /\ SearchIdle /\ cosine = <<>>
    /\ ExtractIdle /\ NormalizeIdle /\ WriteIdle /\ BatchIdle /\ GraphIdle
    /\ v_pc = "items"
    /\ v_raw \in RawRequests(MaxRawTail)
    /\ v_mentions = <<>>
    /\ v_outcome = "pending"

validateOthers ==
    <<storageVars, cosine, chatVars, searchVars, extractVars, normalizeVars,
      writeVars, batchVars, graphVars, serviceVars>>

\* concept_models.py:6-19, 32  the items of the list become ConceptMention
\* objects, or one of them is invalid
ValidateItems ==
    /\ v_pc = "items"
    /\ IF \A i \in 1..Len(v_raw) : ConceptMention(v_raw[i]).ok
       THEN /\ v_mentions' = [i \in 1..Len(v_raw) |-> ConceptMention(v_raw[i]).mention]
            /\ v_pc' = "max_items"
            /\ UNCHANGED v_outcome
       ELSE /\ v_outcome' = "invalid_mention"
            /\ v_pc' = "done"
            /\ UNCHANGED v_mentions
    /\ UNCHANGED v_raw
    /\ UNCHANGED validateOthers

\* concept_models.py:32  Field(max_items=20)
ValidateMaxItems ==
    /\ v_pc = "max_items"
    /\ IF Len(v_mentions) > MaxMentions
       THEN v_outcome' = "too_long" /\ v_pc' = "done"
       ELSE v_pc' = "validate_mentions" /\ UNCHANGED v_outcome
    /\ UNCHANGED <<v_raw, v_mentions>>
    /\ UNCHANGED validateOthers

\* concept_models.py:34-44
ValidateMentions ==
    /\ v_pc = "validate_mentions"
    /\ v_outcome' = IF ValidateMentionsError(v_mentions) = "none" THEN "accepted"
                    ELSE ValidateMentionsError(v_mentions)
    /\ v_pc' = "done"
    /\ UNCHANGED <<v_raw, v_mentions>>
    /\ UNCHANGED validateOthers

ValidateNext == ValidateItems \/ ValidateMaxItems \/ ValidateMentions

SpecValidate == ValidateInit /\ [][ValidateNext]_vars

\* two raw names that differ only in case, surrounding whitespace or quotes:
\* equal once lowercased, stripped and freed of quote characters
DifferOnlyInForm(x, y) ==
    Remove(Remove(Strip(StrLower(x)), QUOTE), APOSTROPHE)
        = Remove(Remove(Strip(StrLower(y)), QUOTE), APOSTROPHE)

\* every submitted mention is valid by itself
AllMentionsValid == \A i \in 1..Len(v_raw) : ConceptMention(v_raw[i]).ok

MaxWrites == 2
\* Longest mention list submitted to POST /concepts/upsert.
MaxWriteMentions == 1

\* the (user, name) uniqueness of table concepts: the row of a name, if any
ConceptRows(name) == {i \in 1..Len(concepts) : concepts[i].name = name}

\* the row of a (chunk, concept) pair in table chunk_concepts, if any
LinkRows(chunk_id, concept_id) ==
    {i \in 1..Len(chunk_concepts) :
        chunk_concepts[i].chunk_id = chunk_id /\ chunk_concepts[i].concept_id = concept_id}

\* routes_concepts.py:18-36  the chunk has an event the user owns
ChunkOwned(chunk_id) == \E i \in 1..Len(audio_chunks) : audio_chunks[i].id = chunk_id

\* routes_concepts.py:99-106 / transcribe_summary.py:385-392
ChunkConceptData(chunk_id, concept_id, mention) ==
    [chunk_id |-> chunk_id, concept_id |-> concept_id, score |-> mention.score,
     from_sec |-> Get(mention, "from_sec", "None"),
     to_sec |-> Get(mention, "to_sec", "None")]

\* a write that adds a second row for the pair
MergeDuplicates_Append(table, row) == Append(table, row)

\* Prefer: resolution=merge-duplicates on the key (chunk_id, concept_id)
MergeDuplicates(table, row) ==
    IF \E i \in 1..Len(table) :
          table[i].chunk_id = row.chunk_id /\ table[i].concept_id = row.concept_id
    THEN [i \in 1..Len(table) |->
             IF table[i].chunk_id = row.chunk_id /\ table[i].concept_id = row.concept_id
             THEN row ELSE table[i]]
    ELSE Append(table, row)

Resting(p) == w_pc[p] \in {"idle", "done", "rejected", "forbidden", "failed"}

\* the requests and responses tried on the write paths
RawWriteMentions ==
    {[name |-> RAW_AI_UPPER, score |-> MinMentionScore],
     [name |-> RAW_AI_SPACED, score |-> MaxMentionScore],
     [name |-> RAW_AI_LOWER, score |-> MaxMentionScore + 1],
     [name |-> <<"m", "l">>, score |-> MaxMentionScore, from_sec |-> "4.0"]}
WriteRequests(n) == SeqsUpTo(RawWriteMentions, n)
WriteResponses ==
    {ArrayText(<<"{ml}">>), ArrayText(<<"{quoted}", "{loud}">>), ArrayText(<<"{high}">>)}
\* chunk 9 is no chunk of the user; 0 is the None of a URL that matches no chunk
RequestChunks == {1, 9}
PipelineChunks == {0, 1}

WritesInit ==
    /\ ServiceIdle
    /\ ChatIdle /\ SearchIdle /\ cosine = <<>>
    /\ ExtractIdle /\ NormalizeIdle /\ ValidateIdle /\ WriteIdle /\ BatchIdle
    /\ GraphIdle
    /\ events = EVENTS /\ audio_chunks = CHUNKS
    /\ concepts = <<>> /\ chunk_concepts = <<>>

writeOthers ==
    <<cosine, chatVars, searchVars, normalizeVars, batchVars, graphVars, serviceVars>>

\* a request body reaches POST /concepts/upsert
PostUpsert ==
    /\ Resting("api") /\ w_runs < MaxWrites
    /\ \E chunk_id \in RequestChunks, raw \in WriteRequests(MaxWriteMentions) :
          /\ v_raw' = raw
          /\ w_chunk_id' = [w_chunk_id EXCEPT !["api"] = chunk_id]
    /\ v_pc' = "items" /\ v_mentions' = <<>> /\ v_outcome' = "pending"
    /\ w_pc' = [w_pc EXCEPT !["api"] = "validating"]
    /\ w_mentions' = [w_mentions EXCEPT !["api"] = <<>>]
    /\ w_i' = [w_i EXCEPT !["api"] = 1]
    /\ w_inserted' = [w_inserted EXCEPT !["api"] = 0]
    /\ w_runs' = w_runs + 1
    /\ UNCHANGED <<w_concept_id, storageVars, extractVars, writeOthers>>

\* routes_concepts.py:39-61  the request model was built or refused; then the
\* ownership of the chunk
UpsertEnter ==
    /\ w_pc["api"] = "validating" /\ v_pc = "done"
    /\ IF v_outcome # "accepted"
       THEN w_pc' = [w_pc EXCEPT !["api"] = "rejected"] /\ UNCHANGED w_mentions
       ELSE IF ~ChunkOwned(w_chunk_id["api"])
       THEN w_pc' = [w_pc EXCEPT !["api"] = "forbidden"] /\ UNCHANGED w_mentions
       ELSE /\ w_pc' = [w_pc EXCEPT !["api"] = "concept"]
            /\ w_mentions' = [w_mentions EXCEPT !["api"] = v_mentions]
    /\ UNCHANGED <<w_chunk_id, w_i, w_concept_id, w_inserted, w_runs>>
    /\ UNCHANGED <<storageVars, extractVars, validateVars, writeOthers>>

\* transcribe_summary.py:137-160  the pipeline has a transcript (a blank one
\* raised at 144) and calls extract_concepts_from_transcript
PipelineStart ==
    /\ Resting("auto") /\ w_runs < MaxWrites
    /\ \E chunk_id \in PipelineChunks :
          w_chunk_id' = [w_chunk_id EXCEPT !["auto"] = chunk_id]
    /\ x_pc' = "call" /\ x_transcript' = TRANSCRIPT
    /\ x_response' = <<>> /\ x_text' = <<>> /\ x_concepts' = Unset
    /\ x_calls' = 0 /\ x_return' = NoReturn
    /\ w_pc' = [w_pc EXCEPT !["auto"] = "extracting"]
    /\ w_mentions' = [w_mentions EXCEPT !["auto"] = <<>>]
    /\ w_i' = [w_i EXCEPT !["auto"] = 1]
    /\ w_runs' = w_runs + 1
    /\ UNCHANGED <<w_concept_id, w_inserted, storageVars, validateVars, writeOthers>>

\* transcribe_summary.py:163-170, 301-345
PipelineUpsert ==
    /\ w_pc["auto"] = "extracting" /\ x_pc = "done"
    /\ IF /\ w_chunk_id["auto"] # 0 /\ x_return.value # <<>>
          /\ ChunkOwned(w_chunk_id["auto"])
       THEN /\ w_pc' = [w_pc EXCEPT !["auto"] = "concept"]
            /\ w_mentions' = [w_mentions EXCEPT !["auto"] = x_return.value]
       ELSE /\ w_pc' = [w_pc EXCEPT !["auto"] = "done"]
            /\ UNCHANGED w_mentions
    /\ UNCHANGED <<w_chunk_id, w_i, w_concept_id, w_inserted, w_runs>>
    /\ UNCHANGED <<storageVars, extractVars, validateVars, writeOthers>>


\* the loop moves to the next mention, or ends
Advance(p) ==
    /\ w_i' = [w_i EXCEPT ![p] = w_i[p] + 1]
    /\ w_pc' = [w_pc EXCEPT ![p] = IF w_i[p] + 1 > Len(w_mentions[p]) THEN "done"
                                   ELSE "concept"]

\* routes_concepts.py:66-96 / transcribe_summary.py:349-375  insert the
\* concept; where the name is taken, the insert fails and the row is looked up
ConceptUpsert(p) ==
    /\ w_pc[p] = "concept"
    /\ LET name == w_mentions[p][w_i[p]].name
       IN IF ConceptRows(name) = {}
          THEN /\ concepts' = Append(concepts, [id |-> Len(concepts) + 1, name |-> name])
               /\ w_concept_id' = [w_concept_id EXCEPT ![p] = Len(concepts) + 1]
          ELSE /\ w_concept_id' =
                     [w_concept_id EXCEPT ![p] = concepts[CHOOSE i \in ConceptRows(name) : TRUE].id]
               /\ UNCHANGED concepts
    /\ w_pc' = [w_pc EXCEPT ![p] = "link"]
    /\ UNCHANGED <<w_chunk_id, w_mentions, w_i, w_inserted, w_runs>>
    /\ UNCHANGED <<chunk_concepts, audio_chunks, events>>
    /\ UNCHANGED <<extractVars, validateVars, writeOthers>>

\* routes_concepts.py:92-94 / transcribe_summary.py:376-382  the concept was
\* neither created nor found: continue
ConceptUpsertSkips(p) ==
    /\ w_pc[p] = "concept"
    /\ Advance(p)
    /\ UNCHANGED <<w_chunk_id, w_mentions, w_concept_id, w_inserted, w_runs>>
    /\ UNCHANGED <<storageVars, extractVars, validateVars, writeOthers>>

\* routes_concepts.py:82-90, 128-133  the lookup after a failed insert raises:
\* HTTP 500, the mentions written so far stay written
ConceptLookupFails ==
    /\ w_pc["api"] = "concept"
    /\ w_pc' = [w_pc EXCEPT !["api"] = "failed"]
    /\ UNCHANGED <<w_chunk_id, w_mentions, w_i, w_concept_id, w_inserted, w_runs>>
    /\ UNCHANGED <<storageVars, extractVars, validateVars, writeOthers>>

\* routes_concepts.py:99-114 / transcribe_summary.py:385-399
LinkUpsert(p) ==
    /\ w_pc[p] = "link"
    /\ chunk_concepts' =
          MergeDuplicates(chunk_concepts,
                          ChunkConceptData(w_chunk_id[p], w_concept_id[p],
                                           w_mentions[p][w_i[p]]))
    /\ w_inserted' = [w_inserted EXCEPT ![p] = w_inserted[p] + 1]
    /\ Advance(p)
    /\ UNCHANGED <<w_chunk_id, w_mentions, w_concept_id, w_runs>>
    /\ UNCHANGED <<concepts, audio_chunks, events>>
    /\ UNCHANGED <<extractVars, validateVars, writeOthers>>

\* routes_concepts.py:116-118 / transcribe_summary.py:400-401  continue
LinkUpsertFails(p) ==
    /\ w_pc[p] = "link"
    /\ Advance(p)
    /\ UNCHANGED <<w_chunk_id, w_mentions, w_concept_id, w_inserted, w_runs>>
    /\ UNCHANGED <<storageVars, extractVars, validateVars, writeOthers>>

WritesNext ==
    \/ PostUpsert
    \/ ValidateItems
    \/ ValidateMaxItems
    \/ ValidateMentions
    \/ UpsertEnter
    \/ PipelineStart
    \/ ExtractEnter
    \/ ExtractGenerate(WriteResponses)
    \/ ExtractGenerateFails
    \/ ExtractClean
    \/ ExtractParse
    \/ ExtractValidate
    \/ PipelineUpsert
    \/ \E p \in Paths :
        \/ ConceptUpsert(p)
        \/ ConceptUpsertSkips(p)
        \/ LinkUpsert(p)
        \/ LinkUpsertFails(p)
    \/ ConceptLookupFails

SpecWrites == WritesInit /\ [][WritesNext]_vars


\* ------------------------------------------------ claims on the writes

\* lowercase, no whitespace at either end, no quote character
IsCanonicalName(name) ==
    /\ name = StrLower(name)
    /\ name = Strip(name)
    /\ QUOTE \notin Range(name) /\ APOSTROPHE \notin Range(name)

\* C16: after any sequence of concept writes through either write path, every
\* stored concept name is lowercase, has no leading or trailing whitespace
\* and contains no " or ' character.
C16_StoredNamesCanonical ==
    \A i \in 1..Len(concepts) : IsCanonicalName(concepts[i].name)

\* every link score the write paths stored is between 0.1 and 5.0
WrittenScoresInRange ==
    \A i \in 1..Len(chunk_concepts) :
        MinMentionScore <= chunk_concepts[i].score
        /\ chunk_concepts[i].score <= MaxMentionScore


\* ------------------------------------------- one call of encode_batch

\* Longest text list handed to encode_batch.
MaxBatch == 3

BatchTexts == {<<>>, <<" ">>, <<"a">>, <<" ", "b", " ">>}

BatchInit ==
    /\ ServiceIdle
    /\ StorageEmpty /\ ChatIdle /\ SearchIdle /\ cosine = <<>>
    /\ ExtractIdle /\ NormalizeIdle /\ ValidateIdle /\ WriteIdle /\ GraphIdle
    /\ b_pc = "call"
    /\ b_texts \in SeqsUpTo(BatchTexts, MaxBatch)
    /\ b_valid_texts = <<>> /\ b_valid_indices = <<>>
    /\ b_result = NoReturn

batchOthers ==
    <<storageVars, cosine, chatVars, searchVars, extractVars, normalizeVars,
      validateVars, writeVars, graphVars, serviceVars>>

\* vector_search.py:60-61  if not texts: return np.array([])
BatchEnter ==
    /\ b_pc = "call"
    /\ IF b_texts = <<>>
       THEN b_result' = [outcome |-> "returned", value |-> <<>>] /\ b_pc' = "done"
       ELSE b_pc' = "filter" /\ UNCHANGED b_result
    /\ UNCHANGED <<b_texts, b_valid_texts, b_valid_indices>>
    /\ UNCHANGED batchOthers

\* vector_search.py:64-70
BatchFilter ==
    /\ b_pc = "filter"
    /\ b_valid_indices' = ValidIndices(b_texts, 1)
    /\ b_valid_texts' = ValidTexts(b_texts, ValidIndices(b_texts, 1))
    /\ b_pc' = "encode"
    /\ UNCHANGED <<b_texts, b_result>>
    /\ UNCHANGED batchOthers

\* vector_search.py:72-73  if not valid_texts: return np.zeros((len(texts), 384))
BatchZeros ==
    /\ b_pc = "encode" /\ b_valid_texts = <<>>
    /\ b_result' = [outcome |-> "returned", value |-> [i \in 1..Len(b_texts) |-> ZERO]]
    /\ b_pc' = "done"
    /\ UNCHANGED <<b_texts, b_valid_texts, b_valid_indices>>
    /\ UNCHANGED batchOthers

\* vector_search.py:76-83
BatchEncode ==
    /\ b_pc = "encode" /\ b_valid_texts # <<>>
    /\ b_result' =
          [outcome |-> "returned",
           value |-> FillResult(Len(b_texts), b_valid_indices,
                                ModelEncodeBatch(b_valid_texts))]
    /\ b_pc' = "done"
    /\ UNCHANGED <<b_texts, b_valid_texts, b_valid_indices>>
    /\ UNCHANGED batchOthers

\* vector_search.py:76  the model raises; encode_batch has no handler
BatchEncodeFails ==
    /\ b_pc = "encode" /\ b_valid_texts # <<>>
    /\ b_result' = [outcome |-> "raised", value |-> <<>>]
    /\ b_pc' = "done"
    /\ UNCHANGED <<b_texts, b_valid_texts, b_valid_indices>>
    /\ UNCHANGED batchOthers

BatchNext ==
    \/ BatchEnter
    \/ BatchFilter
    \/ BatchZeros
    \/ BatchEncode
    \/ BatchEncodeFails

SpecBatch == BatchInit /\ [][BatchNext]_vars

\* the row the claim expects for a text
ExpectedRow(text) ==
    IF Strip(text) = <<>> THEN <<"zero">> ELSE <<"vec", Strip(text)>>

\* C18: encode_batch keeps positions and count: the result has one row per
\* text, the zero vector for an empty or whitespace-only text and the
\* embedding of the trimmed text otherwise; a list of empty texts gives as many
\* zero rows, and the empty list an empty result.
C18_BatchKeepsPositions ==
    (b_pc = "done" /\ b_result.outcome = "returned") =>
        /\ Len(b_result.value) = Len(b_texts)
        /\ \A i \in 1..Len(b_texts) : b_result.value[i] = ExpectedRow(b_texts[i])
        /\ b_texts = <<>> => b_result.value = <<>>

\* an empty text ahead of a text the model embedded
C18_Witness ==
    /\ b_pc = "done"
    /\ Len(b_texts) >= 2 /\ b_texts[1] = <<>> /\ b_texts[2] = <<" ", "b", " ">>
    /\ b_result.outcome = "returned"
    /\ b_result.value[1] = <<"zero">> /\ b_result.value[2] = <<"vec", <<"b">>>>


\* ------------------------------------------------ Python float arithmetic
\* A float other than 0.0 is [e, m]: m is the 53-bit significand, most
\* significant bit first and that bit 1, and the value is m * 2^e.  Only
\* positive floats occur.  Every operation rounds to nearest, ties to even.
\* Sums and quotients of bit sequences are computed ten bits at a time.

\* the significand of an IEEE 754 binary64
Precision == 53

\* the bits of one limb
LimbBits == 10

FZERO == [e |-> 0, m |-> <<>>]

Zeros(n) == [i \in 1..n |-> 0]

\* the bits of a natural number, without leading zeros
RECURSIVE IntBits(_)
IntBits(n) == IF n = 0 THEN <<>> ELSE Append(IntBits(n \div 2), n % 2)

DropLeadingZeros(bits) ==
    LET ones == {i \in 1..Len(bits) : bits[i] = 1}
    IN IF ones = {} THEN <<>>
       ELSE SubSeq(bits, CHOOSE i \in ones : \A j \in ones : i <= j, Len(bits))

\* the number of zeros that makes n bits a whole number of limbs
LimbPad(n) == (LimbBits - (n % LimbBits)) % LimbBits

\* the number a limb of bits stands for
RECURSIVE LimbValue(_)
LimbValue(bits) ==
    IF bits = <<>> THEN 0
    ELSE 2 * LimbValue(SubSeq(bits, 1, Len(bits) - 1)) + bits[Len(bits)]

\* a whole number of limbs of bits, as limbs
ToLimbs(bits) ==
    [k \in 1..(Len(bits) \div LimbBits) |->
        LimbValue(SubSeq(bits, LimbBits * (k - 1) + 1, LimbBits * k))]

FromLimbs(limbs) ==
    [i \in 1..(LimbBits * Len(limbs)) |->
        (limbs[((i - 1) \div LimbBits) + 1] \div (2 ^ (LimbBits - 1 - ((i - 1) % LimbBits)))) % 2]

\* a + b of two limb sequences of one length, from limb i down: one limb longer
RECURSIVE AddLimbs(_, _, _, _, _)
AddLimbs(a, b, i, carry, acc) ==
    IF i = 0 THEN <<carry>> \o acc
    ELSE AddLimbs(a, b, i - 1, (a[i] + b[i] + carry) \div (2 ^ LimbBits),
                  <<(a[i] + b[i] + carry) % (2 ^ LimbBits)>> \o acc)

\* a + b of two bit sequences of one length, with leading zeros
BitsSum(a, b) ==
    LET pad == Zeros(LimbPad(Len(a)))
        la == ToLimbs(pad \o a)
        lb == ToLimbs(pad \o b)
    IN FromLimbs(AddLimbs(la, lb, Len(la), 0, <<>>))

\* the float nearest to bits * 2^e, where sticky says that the exact value
\* lies above bits * 2^e by less than 2^e
RoundBits(bits, e, sticky) ==
    LET sig == DropLeadingZeros(bits)
        extra == Len(sig) - Precision
    IN IF sig = <<>> THEN FZERO
       ELSE IF extra <= 0
       THEN [e |-> e + extra, m |-> sig \o Zeros(-extra)]
       ELSE LET keep == SubSeq(sig, 1, Precision)
                rest == SubSeq(sig, Precision + 1, Len(sig))
                above == sticky \/ \E i \in 2..Len(rest) : rest[i] = 1
                up == rest[1] = 1 /\ (above \/ keep[Precision] = 1)
                next == DropLeadingZeros(BitsSum(keep, Zeros(Precision - 1) \o <<1>>))
            IN IF ~up THEN [e |-> e + extra, m |-> keep]
               ELSE IF Len(next) > Precision
               THEN [e |-> e + extra + 1, m |-> SubSeq(next, 1, Precision)]
               ELSE [e |-> e + extra, m |-> next]

\* x + y
FAdd(x, y) ==
    IF x = FZERO THEN y
    ELSE IF y = FZERO THEN x
    ELSE LET hi == IF x.e >= y.e THEN x ELSE y
             lo == IF x.e >= y.e THEN y ELSE x
             d == hi.e - lo.e
         IN RoundBits(BitsSum(hi.m \o Zeros(d), Zeros(d) \o lo.m), lo.e, FALSE)

\* long division of limbs by den from limb i on, with the remainder so far:
\* the quotient and the last remainder
RECURSIVE DivLimbs(_, _, _, _, _)
DivLimbs(limbs, den, i, rem, q) ==
    IF i > Len(limbs) THEN [q |-> q, rem |-> rem]
    ELSE DivLimbs(limbs, den, i + 1, (rem * (2 ^ LimbBits) + limbs[i]) % den,
                  Append(q, (rem * (2 ^ LimbBits) + limbs[i]) \div den))

\* the float nearest to bits * 2^e / den
RoundedQuotient(bits, e, den) ==
    LET k == Precision + 1 + Len(IntBits(den))
        pad == LimbPad(Len(bits) + k)
        division == DivLimbs(ToLimbs(bits \o Zeros(k + pad)), den, 1, 0, <<>>)
    IN RoundBits(FromLimbs(division.q), e - k - pad, division.rem # 0)

\* x / n for a positive int n
FDivInt(x, n) == IF x = FZERO THEN FZERO ELSE RoundedQuotient(x.m, x.e, n)

\* the float nearest to num / den: what reading a decimal numeral gives
FromRatio(num, den) == RoundedQuotient(IntBits(num), 0, den)

\* bit sequences of one length in numeric order
BitsLess(a, b) ==
    \E i \in 1..Len(a) : a[i] < b[i] /\ \A j \in 1..(i - 1) : a[j] = b[j]

\* x < y
FLess(x, y) ==
    IF y = FZERO THEN FALSE
    ELSE IF x = FZERO THEN TRUE
    ELSE x.e < y.e \/ (x.e = y.e /\ BitsLess(x.m, y.m))


\* --------------------------------------------------- GET /graph/export
\* routes_graph.py:19-213.  The rows of every table are the rows of the one
\* user the request is for; a stored score is in twentieths and becomes a
\* float when the handler reads the response of the storage.

\* routes_graph.py:22  Query(500, ...)
DefaultLimit == 500

\* routes_graph.py:185  limit=100
RelationsLimit == 100

\* the twentieths in 1.0
ScoreScale == 20

\* the rows at the positions keep, in the order of the table
RECURSIVE RowsAt(_, _)
RowsAt(rows, keep) ==
    IF rows = <<>> THEN <<>>
    ELSE LET front == RowsAt(SubSeq(rows, 1, Len(rows) - 1), keep)
         IN IF Len(rows) \in keep THEN Append(front, rows[Len(rows)]) ELSE front

\* the float of every score a row can store
ScoreFloats == [score \in 1..MaxMentionScore |-> FromRatio(score, ScoreScale)]

\* response.json() of a stored score
ScoreFloat(score) == ScoreFloats[score]

\* the day of a started_at, to order the events by
Day == [d \in {"2024-01-01", "2024-02-02", "2024-03-03"} |->
           IF d = "2024-01-01" THEN 1 ELSE IF d = "2024-02-02" THEN 2 ELSE 3]

\* supabase_client.py:93-94  the limit is sent unless it is None or 0
Limited(rows, limit) == IF limit = 0 THEN rows ELSE Take(rows, limit)

\* database.py:115-126
VerifyEventOwnership(event_id) == \E i \in 1..Len(events) : events[i].id = event_id

\* routes_graph.py:36-54  the events, newest first
ExportEvents(limit, event_id) ==
    LET rows == RowsAt(events, {i \in 1..Len(events) :
                                   event_id = 0 \/ events[i].id = event_id})
        keyed == [i \in 1..Len(rows) |-> [row |-> rows[i], day |-> Day[rows[i].started_at]]]
        sorted == SortDesc(keyed, "day")
    IN Limited([i \in 1..Len(sorted) |-> sorted[i].row],
               IF event_id = 0 THEN limit \div 3 ELSE 0)

\* routes_graph.py:62-77
EventNode(event) ==
    [id |-> <<"event", event.id>>,
     label |-> IF Strip(event.title) # <<>> THEN Strip(event.title) ELSE UNTITLED,
     type |-> "event"]

\* routes_graph.py:80-91  the chunks of the events fetched
ExportChunks(fetched) ==
    RowsAt(audio_chunks, {k \in 1..Len(audio_chunks) :
                             \E i \in 1..Len(fetched) :
                                 fetched[i].id = audio_chunks[k].event_id})

\* the embedded resource concepts(id,name) of a link: the concept, or null
EmbeddedConcept(concept_id) ==
    LET rows == RowsAt(concepts, {i \in 1..Len(concepts) : concepts[i].id = concept_id})
    IN IF rows = <<>> THEN <<>> ELSE <<rows[1]>>

\* routes_graph.py:98-113  the links of the chunks fetched, highest score first
ExportChunkConcepts(chunks, limit) ==
    LET rows == RowsAt(chunk_concepts,
                       {k \in 1..Len(chunk_concepts) :
                           \E i \in 1..Len(chunks) :
                               chunks[i].id = chunk_concepts[k].chunk_id})
        sorted == Limited(SortDesc(rows, "score"), limit)
    IN [i \in 1..Len(sorted) |->
           [chunk_id |-> sorted[i].chunk_id, concept_id |-> sorted[i].concept_id,
            score |-> sorted[i].score, concepts |-> EmbeddedConcept(sorted[i].concept_id)]]

\* routes_graph.py:128-132  the event of the chunk of a link, 0 for None
ChunkEventId(chunks, chunk_id) ==
    LET rows == RowsAt(chunks, {i \in 1..Len(chunks) : chunks[i].id = chunk_id})
    IN IF rows = <<>> THEN 0 ELSE rows[1].event_id

\* routes_graph.py:140-148
ConceptNode(concept) ==
    [id |-> <<"concept", concept.id>>, label |-> concept.name, type |-> "concept"]

\* the position of a key in event_concept_links, 0 if it is not in it
LinkKeyIndex(links, event_id, concept_id) ==
    LET found == {i \in 1..Len(links) :
                     links[i].event_id = event_id /\ links[i].concept_id = concept_id}
    IN IF found = {} THEN 0 ELSE CHOOSE i \in found : TRUE

\* routes_graph.py:151-161  one link added to event_concept_links
Aggregated(links, event_id, concept_id, score) ==
    LET at == LinkKeyIndex(links, event_id, concept_id)
        known == IF at = 0
                 THEN Append(links, [event_id |-> event_id, concept_id |-> concept_id,
                                     total_score |-> FZERO, mention_count |-> 0])
                 ELSE links
        k == IF at = 0 THEN Len(known) ELSE at
    IN [known EXCEPT ![k].total_score = FAdd(@, ScoreFloat(score)),
                     ![k].mention_count = @ + 1]

\* routes_graph.py:119-161  the loop over chunk_concepts from position k on;
\* acc is [concept_map, nodes, event_concept_links]
RECURSIVE AggregateLoop(_, _, _, _)
AggregateLoop(ccs, k, chunks, acc) ==
    IF k > Len(ccs) THEN acc
    ELSE LET cc == ccs[k]
             chunk_event_id == ChunkEventId(chunks, cc.chunk_id)
         IN IF cc.concepts = <<>> \/ chunk_event_id = 0
            THEN AggregateLoop(ccs, k + 1, chunks, acc)
            ELSE LET concept == cc.concepts[1]
                     seen == \E i \in 1..Len(acc.concept_map) :
                                 acc.concept_map[i] = concept.id
                 IN AggregateLoop(ccs, k + 1, chunks,
                        [concept_map |-> IF seen THEN acc.concept_map
                                         ELSE Append(acc.concept_map, concept.id),
                         nodes |-> IF seen THEN acc.nodes
                                   ELSE Append(acc.nodes, ConceptNode(concept)),
                         event_concept_links |->
                             Aggregated(acc.event_concept_links, chunk_event_id,
                                        concept.id, cc.score)])

\* routes_graph.py:164-173
MentionsLinks(event_concept_links) ==
    [i \in 1..Len(event_concept_links) |->
        [source |-> <<"event", event_concept_links[i].event_id>>,
         target |-> <<"concept", event_concept_links[i].concept_id>>,
         type |-> "MENTIONS",
         score |-> FDivInt(event_concept_links[i].total_score,
                           event_concept_links[i].mention_count)]]

\* routes_graph.py:177-187  the relations from the concepts of concept_map
ExportRelations(concept_map) ==
    Limited(SortDesc(RowsAt(concept_relations,
                            {k \in 1..Len(concept_relations) :
                                \E i \in 1..Len(concept_map) :
                                    concept_map[i] = concept_relations[k].src}),
                     "score"),
            RelationsLimit)

RelatedLink(relation) ==
    [source |-> <<"concept", relation.src>>, target |-> <<"concept", relation.dst>>,
     type |-> "RELATED", score |-> ScoreFloat(relation.score)]

\* every relation fetched becomes a link
RelatedLinks_AnyTarget(relations, concept_map) ==
    [i \in 1..Len(relations) |-> RelatedLink(relations[i])]

\* routes_graph.py:189-197
RelatedLinks(relations, concept_map) ==
    LET kept == RowsAt(relations,
                       {k \in 1..Len(relations) :
                           \E i \in 1..Len(concept_map) : concept_map[i] = relations[k].dst})
    IN [i \in 1..Len(kept) |-> RelatedLink(kept[i])]


\* ---------------------------------------------- one request of the export
\* The tables of the user: three events, the newest with FaintPad + 1 chunks,
\* the next with one chunk, the oldest with none and a blank title; up to
\* FaintPad links of the lowest score 0.1 from the chunks of the newest event
\* to one concept, then up to MaxLinks links more; a few concept relations.

FaintPad == 5
MaxLinks == 2

GRAPH_EVENTS == <<[id |-> 1, title |-> PLAIN, started_at |-> "2024-03-03"],
                  [id |-> 2, title |-> MEET, started_at |-> "2024-02-02"],
                  [id |-> 3, title |-> SPACE, started_at |-> "2024-01-01"]>>

GraphChunks ==
    [i \in 1..(FaintPad + 2) |->
        [id |-> i, event_id |-> IF i <= FaintPad + 1 THEN 1 ELSE 2,
         transcript |-> <<>>, summary |-> <<>>]]

GRAPH_CONCEPTS == <<CONCEPT_A, CONCEPT_AB, [id |-> 3, name |-> <<"b">>]>>

FaintLinks(k) ==
    [i \in 1..k |-> [chunk_id |-> i, concept_id |-> 1, score |-> MinMentionScore]]

FreeLinks ==
    [chunk_id : {FaintPad + 1, FaintPad + 2}, concept_id : {1, 2},
     score : {MinMentionScore, MaxMentionScore}]

\* the link tables: no two links of one chunk and one concept
GraphLinkTables(n) ==
    {FaintLinks(k) \o tail :
        k \in {0, FaintPad},
        tail \in {t \in SeqsUpTo(FreeLinks, n) :
                    \A i, j \in 1..Len(t) :
                        (t[i].chunk_id = t[j].chunk_id /\ t[i].concept_id = t[j].concept_id)
                            => i = j}}

RelationTables ==
    {<<>>,
     <<[src |-> 1, dst |-> 2, score |-> ScoreScale]>>,
     <<[src |-> 1, dst |-> 3, score |-> ScoreScale],
       [src |-> 2, dst |-> 1, score |-> MaxMentionScore],
       [src |-> 3, dst |-> 1, score |-> MinMentionScore]>>}

GraphLimits == {1, FaintPad + 1, DefaultLimit}

\* event_id of the request: none, the newest event, the event without chunks,
\* an event of nobody
GraphEventIds == {0, 1, 3, 9}

GraphInit ==
    /\ ServiceIdle
    /\ ChatIdle /\ SearchIdle /\ cosine = <<>>
    /\ ExtractIdle /\ NormalizeIdle /\ ValidateIdle /\ WriteIdle /\ BatchIdle
    /\ \/ /\ StorageEmpty
          /\ concept_relations = <<>>
       \/ /\ events = GRAPH_EVENTS /\ audio_chunks = GraphChunks
          /\ concepts = GRAPH_CONCEPTS
          /\ chunk_concepts \in GraphLinkTables(MaxLinks)
          /\ concept_relations \in RelationTables
    /\ g_pc = "idle" /\ g_limit = 0 /\ g_event_id = 0
    /\ g_events = <<>> /\ g_chunks = <<>> /\ g_chunk_concepts = <<>>
    /\ g_concept_map = <<>> /\ g_event_concept_links = <<>>
    /\ g_nodes = <<>> /\ g_links = <<>> /\ g_response = NoReturn

graphOthers ==
    <<storageVars, cosine, chatVars, searchVars, extractVars, normalizeVars,
      validateVars, writeVars, batchVars, concept_relations, serviceVars>>

ExportReturns(nodes, links) ==
    [outcome |-> "returned", value |-> [nodes |-> nodes, links |-> links]]

ExportRaises(status_code) == [outcome |-> "raised", value |-> status_code]

\* routes_graph.py:31-44
ExportEnter ==
    /\ g_pc = "idle"
    /\ \E limit \in GraphLimits, event_id \in GraphEventIds :
          /\ g_limit' = limit /\ g_event_id' = event_id
          /\ IF event_id # 0 /\ ~VerifyEventOwnership(event_id)
             THEN g_response' = ExportRaises(403) /\ g_pc' = "done"
             ELSE g_response' = g_response /\ g_pc' = "events"
    /\ UNCHANGED <<g_events, g_chunks, g_chunk_concepts, g_concept_map,
                   g_event_concept_links, g_nodes, g_links>>
    /\ UNCHANGED graphOthers

\* routes_graph.py:47-77
ExportSelectEvents ==
    /\ g_pc = "events"
    /\ g_events' = ExportEvents(g_limit, g_event_id)
    /\ IF g_events' = <<>>
       THEN /\ g_response' = ExportReturns(<<>>, <<>>) /\ g_pc' = "done"
            /\ g_nodes' = g_nodes
       ELSE /\ g_nodes' = [i \in 1..Len(g_events') |-> EventNode(g_events'[i])]
            /\ g_response' = g_response /\ g_pc' = "chunks"
    /\ UNCHANGED <<g_limit, g_event_id, g_chunks, g_chunk_concepts, g_concept_map,
                   g_event_concept_links, g_links>>
    /\ UNCHANGED graphOthers

\* routes_graph.py:80-97
ExportSelectChunks ==
    /\ g_pc = "chunks"
    /\ g_chunks' = ExportChunks(g_events)
    /\ g_pc' = IF g_chunks' # <<>> THEN "chunk_concepts" ELSE "relations"
    /\ UNCHANGED <<g_limit, g_event_id, g_events, g_chunk_concepts, g_concept_map,
                   g_event_concept_links, g_nodes, g_links, g_response>>
    /\ UNCHANGED graphOthers

\* routes_graph.py:98-173
ExportSelectChunkConcepts ==
    /\ g_pc = "chunk_concepts"
    /\ \E fetched \in {ExportChunkConcepts(g_chunks, g_limit)} :
       \E looped \in {AggregateLoop(fetched, 1, g_chunks,
                                    [concept_map |-> <<>>, nodes |-> g_nodes,
                                     event_concept_links |-> <<>>])} :
          /\ g_chunk_concepts' = fetched
          /\ g_concept_map' = looped.concept_map
          /\ g_nodes' = looped.nodes
          /\ g_event_concept_links' = looped.event_concept_links
          /\ g_links' = g_links \o MentionsLinks(looped.event_concept_links)
    /\ g_pc' = "relations"
    /\ UNCHANGED <<g_limit, g_event_id, g_events, g_chunks, g_response>>
    /\ UNCHANGED graphOthers

\* routes_graph.py:176-213  concept_map is a name only if there were chunks:
\* without them line 176 raises, and the handler turns that into a 500
ExportSelectRelations ==
    /\ g_pc = "relations"
    /\ IF g_chunks = <<>>
       THEN g_links' = g_links /\ g_response' = ExportRaises(500)
       ELSE /\ g_links' = IF g_concept_map # <<>>
                          THEN g_links \o RelatedLinks(ExportRelations(g_concept_map),
                                                       g_concept_map)
                          ELSE g_links
            /\ g_response' = ExportReturns(g_nodes, g_links')
    /\ g_pc' = "done"
    /\ UNCHANGED <<g_limit, g_event_id, g_events, g_chunks, g_chunk_concepts,
                   g_concept_map, g_event_concept_links, g_nodes>>
    /\ UNCHANGED graphOthers

\* routes_graph.py:208-213  a call of the storage raises
ExportStorageFails ==
    /\ g_pc \in {"events", "chunks", "chunk_concepts", "relations"}
    /\ g_pc = "relations" => g_concept_map # <<>>
    /\ g_response' = ExportRaises(500)
    /\ g_pc' = "done"
    /\ UNCHANGED <<g_limit, g_event_id, g_events, g_chunks, g_chunk_concepts,
                   g_concept_map, g_event_concept_links, g_nodes, g_links>>
    /\ UNCHANGED graphOthers

GraphNext ==
    \/ ExportEnter
    \/ ExportSelectEvents
    \/ ExportSelectChunks
    \/ ExportSelectChunkConcepts
    \/ ExportSelectRelations
    \/ ExportStorageFails

SpecGraph == GraphInit /\ [][GraphNext]_vars


\* ------------------------------------------------- claims on the export

ExportReturned == g_pc = "done" /\ g_response.outcome = "returned"

\* 0.1 <= x <= 5.0
ScoreInRange(x) ==
    /\ ~FLess(x, ScoreFloat(MinMentionScore))
    /\ ~FLess(ScoreFloat(MaxMentionScore), x)

\* C17: every stored chunk-concept score is in [0.1, 5.0], and so is the
\* score of every MENTIONS edge of a graph the export returns.
C17_ScoresInRange ==
    /\ \A i \in 1..Len(chunk_concepts) :
          chunk_concepts[i].score \in MinMentionScore..MaxMentionScore
    /\ ExportReturned =>
          \A i \in 1..Len(g_response.value.links) :
              g_response.value.links[i].type = "MENTIONS"
                  => ScoreInRange(g_response.value.links[i].score)

\* the stored links of an event and a concept, highest score first
PairLinks(event_id, concept_id) ==
    LET sorted == SortDesc(chunk_concepts, "score")
    IN RowsAt(sorted, {k \in 1..Len(sorted) :
                          /\ sorted[k].concept_id = concept_id
                          /\ ChunkEventId(audio_chunks, sorted[k].chunk_id) = event_id})

\* the sum of the scores of the first k rows, as floats add them
RECURSIVE ScoreSum(_, _)
ScoreSum(rows, k) ==
    IF k = 0 THEN FZERO ELSE FAdd(ScoreSum(rows, k - 1), ScoreFloat(rows[k].score))

\* the mean of the scores of some rows, as floats compute it
MeanScore(rows) == FDivInt(ScoreSum(rows, Len(rows)), Len(rows))

\* the MENTIONS edges of the returned graph from an event to a concept
MentionsEdges(event_id, concept_id) ==
    {i \in 1..Len(g_response.value.links) :
        /\ g_response.value.links[i].type = "MENTIONS"
        /\ g_response.value.links[i].source = <<"event", event_id>>
        /\ g_response.value.links[i].target = <<"concept", concept_id>>}

ConceptIds == {concepts[i].id : i \in 1..Len(concepts)}

\* the pairs of an exported event and a concept have one edge with the mean
\* of all their links if they have a link, and none otherwise
MeanEdgePerPair ==
    \A e \in 1..Len(g_events), c \in ConceptIds :
        LET rows == PairLinks(g_events[e].id, c)
            edges == MentionsEdges(g_events[e].id, c)
        IN IF rows = <<>> THEN edges = {}
           ELSE /\ Cardinality(edges) = 1
                /\ \A i \in edges : g_response.value.links[i].score = MeanScore(rows)

\* C19: a returned graph has exactly one MENTIONS edge for every pair of an
\* exported event and a concept that a link of a chunk of the event joins, and
\* the score of the edge is the mean of the scores of all links of the pair.
C19_OneMeanEdgePerPair == ExportReturned => MeanEdgePerPair

\* the same when the limit of the request is no less than the number of the
\* links of the exported events
C19_WhenNoLinkIsCut ==
    (ExportReturned /\ Len(chunk_concepts) <= g_limit) => MeanEdgePerPair

NodeIds == {g_response.value.nodes[i].id : i \in 1..Len(g_response.value.nodes)}

\* C20: in a returned graph the source and the target of every link are ids of
\* returned nodes, and no two returned nodes have one id.
C20_NoDanglingEdges ==
    ExportReturned =>
        /\ \A i \in 1..Len(g_response.value.links) :
              /\ g_response.value.links[i].source \in NodeIds
              /\ g_response.value.links[i].target \in NodeIds
        /\ \A i, j \in 1..Len(g_response.value.nodes) :
              g_response.value.nodes[i].id = g_response.value.nodes[j].id => i = j

\* a graph returned with a MENTIONS and a RELATED edge, while a relation from
\* an exported concept to a concept that is not exported is stored
C20_Witness ==
    /\ ExportReturned
    /\ \E i, j \in 1..Len(g_response.value.links) :
          /\ g_response.value.links[i].type = "MENTIONS"
          /\ g_response.value.links[j].type = "RELATED"
    /\ \E k \in 1..Len(concept_relations) :
          /\ <<"concept", concept_relations[k].src>> \in NodeIds
          /\ <<"concept", concept_relations[k].dst>> \notin NodeIds


\* ------------------------------------------------ POST /transcribe-summary
\* routes.py:213-270 and the pipeline it calls, transcribe_summary.py:127-189.

\* routes.py:221  max_retries = 3
MaxRetries == 3

\* what a step of the pipeline raises, and the HTTPException the pipeline
\* raises for it
HttpException(status_code, cause) ==
    [outcome |-> "raised", value |-> [type |-> "HTTPException",
                                      status_code |-> status_code, cause |-> cause]]

\* the ways transcribe_audio_with_assemblyai raises: the exception and its
\* status code, 0 for an exception that is no HTTPException
\* transcribe_summary.py:48-52, 65-71, 73, 81-85, 91-95, 98-103
TranscribeErrors ==
    {[type |-> "HTTPException", status_code |-> 500, cause |-> "no api key"],
     [type |-> "RequestException", status_code |-> 0, cause |-> "assemblyai request"],
     [type |-> "KeyError", status_code |-> 0, cause |-> "assemblyai reply"],
     [type |-> "HTTPException", status_code |-> 504, cause |-> "assemblyai timeout"],
     [type |-> "HTTPException", status_code |-> 400, cause |-> "empty transcript"],
     [type |-> "HTTPException", status_code |-> 500, cause |-> "assemblyai error"]}

\* the errors of the services the pipeline calls
ServiceCauses ==
    {"assemblyai request", "assemblyai reply", "assemblyai timeout", "assemblyai error",
     "summarizer"}

\* transcribe_summary.py:177-189  the except clauses of the pipeline
PipelineRaises(error) ==
    IF error.type = "RequestException" THEN HttpException(503, error.cause)
    ELSE IF error.type = "HTTPException" THEN [outcome |-> "raised", value |-> error]
    ELSE HttpException(500, error.cause)

\* routes.py:231  not result or not result.transcript or not result.summary
NullResult(result) == result.transcript = <<>> \/ result.summary = <<>>

\* routes.py:224-264  what the endpoint does with the outcome of a pipeline
\* call: [retry_count, again, response]; again says that it pauses for 2
\* seconds and calls the pipeline once more
EndpointHandles(outcome, retry_count) ==
    IF outcome.outcome = "returned" /\ ~NullResult(outcome.value)
    THEN [retry_count |-> retry_count, again |-> FALSE,
          response |-> [outcome |-> "returned", value |-> outcome.value]]
    ELSE IF outcome.outcome = "raised" /\ outcome.value.type = "HTTPException"
    THEN [retry_count |-> retry_count, again |-> FALSE, response |-> outcome]
    ELSE IF retry_count + 1 < MaxRetries
    THEN [retry_count |-> retry_count + 1, again |-> TRUE, response |-> NoReturn]
    ELSE [retry_count |-> retry_count + 1, again |-> FALSE,
          response |-> HttpException(500, "retries exhausted")]

\* transcribe_summary.py:204-245  the chunk of the audio, None (0) if there is
\* none
ChunkOfUrl(url) == IF ChunkOwned(url) THEN url ELSE 0

\* transcribe_summary.py:224-237  PATCH audio_chunks?audio_url=eq.url
PatchChunk(chunk_id, transcript, summary) ==
    [i \in 1..Len(audio_chunks) |->
        IF audio_chunks[i].id = chunk_id
        THEN [audio_chunks[i] EXCEPT !.transcript = transcript, !.summary = summary]
        ELSE audio_chunks[i]]

\* transcribe_summary.py:347-401 when every call of the storage succeeds:
\* the tables after the mentions from position k on are written
RECURSIVE UpsertedTables(_, _, _, _)
UpsertedTables(mentions, k, chunk_id, tables) ==
    IF k > Len(mentions) THEN tables
    ELSE LET found == {i \in 1..Len(tables.concepts) :
                          tables.concepts[i].name = mentions[k].name}
             concept_id == IF found = {} THEN Len(tables.concepts) + 1
                           ELSE tables.concepts[CHOOSE i \in found : TRUE].id
         IN UpsertedTables(mentions, k + 1, chunk_id,
               [concepts |-> IF found = {}
                             THEN Append(tables.concepts,
                                         [id |-> concept_id, name |-> mentions[k].name])
                             ELSE tables.concepts,
                chunk_concepts |->
                    MergeDuplicates(tables.chunk_concepts,
                                    ChunkConceptData(chunk_id, concept_id, mentions[k]))])

\* ------------------------------------------ one request of the endpoint

PipelineTranscripts == {TA, TB, TF}
PipelineSummaries == {<<>>, SPACE, SA, SB}
PipelineConcepts ==
    {<<>>, <<ExtractedMention(<<"a">>, MaxExtractScore)>>,
     <<ExtractedMention(<<"a">>, MinExtractScore), ExtractedMention(<<"b">>, MaxExtractScore)>>}
PipelineUrls == {1, 9}

RetryInit ==
    /\ ChatIdle /\ SearchIdle /\ cosine = <<>>
    /\ ExtractIdle /\ NormalizeIdle /\ ValidateIdle /\ WriteIdle /\ BatchIdle
    /\ GraphIdle /\ ModelIdle /\ HttpIdle
    /\ events = EVENTS /\ audio_chunks = CHUNKS
    /\ concepts = <<>> /\ chunk_concepts = <<>>
    /\ RetryIdle

retryOthers ==
    <<cosine, chatVars, searchVars, extractVars, normalizeVars, validateVars,
      writeVars, batchVars, graphVars, modelVars, httpVars>>

\* routes.py:213-222
TsRequest ==
    /\ t_pc = "idle"
    /\ t_url' \in PipelineUrls
    /\ t_pc' = "transcribe"
    /\ UNCHANGED <<t_retry_count, t_attempts, t_sleeps, t_transcript, t_summary,
                   t_outcome, t_response>>
    /\ UNCHANGED <<storageVars, retryOthers>>

\* routes.py:228, transcribe_summary.py:139-148  the pipeline is called and
\* has its transcript
TsTranscribe ==
    /\ t_pc = "transcribe"
    /\ t_attempts' = t_attempts + 1
    /\ t_transcript' \in PipelineTranscripts
    /\ t_pc' = "summarize"
    /\ UNCHANGED <<t_url, t_retry_count, t_sleeps, t_summary, t_outcome, t_response>>
    /\ UNCHANGED <<storageVars, retryOthers>>

\* routes.py:228, transcribe_summary.py:139, 177-189  the pipeline is called
\* and the transcription raises
TsTranscribeFails ==
    /\ t_pc = "transcribe"
    /\ t_attempts' = t_attempts + 1
    /\ \E error \in TranscribeErrors : t_outcome' = PipelineRaises(error)
    /\ t_pc' = "handle"
    /\ UNCHANGED <<t_url, t_retry_count, t_sleeps, t_transcript, t_summary, t_response>>
    /\ UNCHANGED <<storageVars, retryOthers>>

\* transcribe_summary.py:151-157
TsSummarize ==
    /\ t_pc = "summarize"
    /\ \E summary \in PipelineSummaries :
          /\ t_summary' = Strip(summary)
          /\ IF Strip(summary) = <<>>
             THEN /\ t_outcome' = PipelineRaises([type |-> "HTTPException",
                                                  status_code |-> 500,
                                                  cause |-> "empty summary"])
                  /\ t_pc' = "handle"
             ELSE t_outcome' = t_outcome /\ t_pc' = "store"
    /\ UNCHANGED <<t_url, t_retry_count, t_attempts, t_sleeps, t_transcript, t_response>>
    /\ UNCHANGED <<storageVars, retryOthers>>

\* summarizer.py:38-39, transcribe_summary.py:151, 182-184
TsSummarizeFails ==
    /\ t_pc = "summarize"
    /\ t_outcome' = PipelineRaises([type |-> "HTTPException", status_code |-> 500,
                                    cause |-> "summarizer"])
    /\ t_pc' = "handle"
    /\ UNCHANGED <<t_url, t_retry_count, t_attempts, t_sleeps, t_transcript, t_summary,
                   t_response>>
    /\ UNCHANGED <<storageVars, retryOthers>>

\* transcribe_summary.py:160-175  the concepts are extracted, the chunk is
\* updated unless it is not found or the update fails, the concepts are
\* written if there are a chunk and concepts, and the pipeline returns
TsStore ==
    /\ t_pc = "store"
    /\ \E extracted \in PipelineConcepts, updated \in BOOLEAN :
          LET chunk_id == IF updated THEN ChunkOfUrl(t_url) ELSE 0
              tables == UpsertedTables(extracted, 1, chunk_id,
                                       [concepts |-> concepts,
                                        chunk_concepts |-> chunk_concepts])
          IN /\ audio_chunks' = PatchChunk(chunk_id, t_transcript, t_summary)
             /\ concepts' = IF chunk_id # 0 THEN tables.concepts ELSE concepts
             /\ chunk_concepts' =
                   IF chunk_id # 0 THEN tables.chunk_concepts ELSE chunk_concepts
    /\ t_outcome' = [outcome |-> "returned",
                     value |-> [transcript |-> t_transcript, summary |-> t_summary]]
    /\ t_pc' = "handle"
    /\ UNCHANGED <<t_url, t_retry_count, t_attempts, t_sleeps, t_transcript, t_summary,
                   t_response>>
    /\ UNCHANGED <<events, retryOthers>>

\* routes.py:230-264
TsHandle ==
    /\ t_pc = "handle"
    /\ LET handled == EndpointHandles(t_outcome, t_retry_count)
       IN /\ t_retry_count' = handled.retry_count
          /\ t_response' = handled.response
          /\ t_sleeps' = IF handled.again THEN t_sleeps + 1 ELSE t_sleeps
          /\ t_pc' = IF handled.again THEN "transcribe" ELSE "done"
    /\ UNCHANGED <<t_url, t_attempts, t_transcript, t_summary, t_outcome>>
    /\ UNCHANGED <<storageVars, retryOthers>>

RetryNext ==
    \/ TsRequest
    \/ TsTranscribe
    \/ TsTranscribeFails
    \/ TsSummarize
    \/ TsSummarizeFails
    \/ TsStore
    \/ TsHandle

SpecRetry == RetryInit /\ [][RetryNext]_vars

\* C21: the endpoint never calls the pipeline more than 3 times, and when it
\* answers with a failure that an error of a service caused, it has called the
\* pipeline 3 times and paused 2 seconds between the calls.
C21_RetriesBeforeFailure ==
    /\ t_attempts <= MaxRetries
    /\ (t_pc = "done" /\ t_response.outcome = "raised"
            /\ t_response.value.cause \in ServiceCauses)
          => (t_attempts = MaxRetries /\ t_sleeps = MaxRetries - 1)

\* the endpoint calls the pipeline once for a request
C21_OneAttempt == t_attempts <= 1 /\ t_sleeps = 0


\* ------------------------------------------- the vector search service
\* vector_search.py:15-33 and 220-228.  m_service is the module's global
\* _vector_search_service (0 for None), m_model[s] the field _model of the
\* s-th VectorSearchService that was constructed (0 for None), m_services
\* and m_loads count the services and the SentenceTransformer models that
\* were constructed.  A caller is a request that searches concepts
\* (routes_chat.py:207-213, 444-450); the requests of one process run on one
\* event loop and give way to each other at an await only.

\* a model property that loads the model at every access
ModelProperty_AlwaysLoads(model, fresh) == fresh

\* vector_search.py:27-33  the model the property returns, fresh being the
\* model it would construct
ModelProperty(model, fresh) == IF model = 0 THEN fresh ELSE model

\* vector_search.py:223-228  the service get_vector_search_service returns,
\* fresh being the service it would construct
GetVectorSearchService(service, fresh) == IF service = 0 THEN fresh ELSE service

ServiceInit ==
    /\ ChatIdle /\ SearchIdle /\ cosine = <<>> /\ StorageEmpty
    /\ ExtractIdle /\ NormalizeIdle /\ ValidateIdle /\ WriteIdle /\ BatchIdle
    /\ GraphIdle /\ RetryIdle /\ HttpIdle
    /\ ModelIdle

serviceOthers ==
    <<storageVars, cosine, chatVars, searchVars, extractVars, normalizeVars,
      validateVars, writeVars, batchVars, graphVars, retryVars, httpVars>>

\* routes_chat.py:196-203, 430-437  a request arrives and awaits the concepts
\* of the user
CallerEnter(c) ==
    /\ q_pc[c] = "idle"
    /\ q_pc' = [q_pc EXCEPT ![c] = "service"]
    /\ UNCHANGED <<m_service, m_model, m_services, m_loads, q_service, q_model>>
    /\ UNCHANGED serviceOthers

\* routes_chat.py:207, 444 and vector_search.py:223-228
CallerGetsService(c) ==
    /\ q_pc[c] = "service"
    /\ LET service == GetVectorSearchService(m_service, m_services + 1)
       IN /\ m_service' = service
          /\ m_services' = IF service > m_services THEN service ELSE m_services
          /\ m_model' = IF service > m_services THEN Append(m_model, 0) ELSE m_model
          /\ q_service' = [q_service EXCEPT ![c] = service]
    /\ q_pc' = [q_pc EXCEPT ![c] = "search"]
    /\ UNCHANGED <<m_loads, q_model>>
    /\ UNCHANGED serviceOthers

\* vector_search.py:124-133, 27-33, 48  search_concepts encodes the query
\* with the model of the service it was called on
CallerEncodes(c) ==
    /\ q_pc[c] = "search"
    /\ LET model == ModelProperty(m_model[q_service[c]], m_loads + 1)
       IN /\ m_model' = [m_model EXCEPT ![q_service[c]] = model]
          /\ m_loads' = IF model > m_loads THEN model ELSE m_loads
          /\ q_model' = [q_model EXCEPT ![c] = model]
    /\ q_pc' = [q_pc EXCEPT ![c] = "done"]
    /\ UNCHANGED <<m_service, m_services, q_service>>
    /\ UNCHANGED serviceOthers

\* vector_search.py:124-125  an empty query: no model is needed
CallerReturnsEmpty(c) ==
    /\ q_pc[c] = "search"
    /\ q_pc' = [q_pc EXCEPT ![c] = "done"]
    /\ UNCHANGED <<m_service, m_model, m_services, m_loads, q_service, q_model>>
    /\ UNCHANGED serviceOthers

\* vector_search.py:32, 151-153  the model is not there and constructing it
\* raises: _model stays None and the search returns []
CallerLoadFails(c) ==
    /\ q_pc[c] = "search"
    /\ m_model[q_service[c]] = 0
    /\ q_pc' = [q_pc EXCEPT ![c] = "failed"]
    /\ UNCHANGED <<m_service, m_model, m_services, m_loads, q_service, q_model>>
    /\ UNCHANGED serviceOthers

ServiceNext ==
    \E c \in Callers :
        \/ CallerEnter(c)
        \/ CallerGetsService(c)
        \/ CallerEncodes(c)
        \/ CallerReturnsEmpty(c)
        \/ CallerLoadFails(c)

SpecService == ServiceInit /\ [][ServiceNext]_vars

\* C22: however the requests interleave, at most one model and at most one
\* service are constructed, every request that got a service got the one of
\* the global variable, and every request that used a model used the one
\* model of that service.
C22_OneModelOneService ==
    /\ m_loads <= 1
    /\ m_services <= 1
    /\ \A c \in Callers :
          /\ q_service[c] # 0 => q_service[c] = m_service
          /\ q_model[c] # 0 => q_model[c] = m_model[m_service]
    /\ \A c, d \in Callers :
          (q_model[c] # 0 /\ q_model[d] # 0) => q_model[c] = q_model[d]

\* two requests have used the model while a third one, which got the service
\* before any model was there, has yet to use it
C22_Witness ==
    /\ q_pc[3] = "search" /\ q_model[1] = 1 /\ q_model[2] = 1
    /\ m_loads = 1


\* ------------------------------------- chat_with_notes run on its own
\* routes_chat.py:174-352 as a function of the request and the tables: the
\* results the handler can come to when no other request is in flight, one
\* for each outcome of its collaborators (the row an ilike select returns,
\* a search or a get_notes_by_concept that fails, the order of a set).

\* routes_chat.py:218-224  the loop over related_concept_results from
\* position k on
RECURSIVE SoloConceptLoop(_, _, _, _)
SoloConceptLoop(found, k, notes, related) ==
    IF k > Len(found) THEN {[notes |-> notes, related |-> related]}
    ELSE SoloConceptLoop(found, k + 1, notes, related)
         \cup UNION {SoloConceptLoop(found, k + 1, notes \o NotesByConcept(row),
                                     Append(related, found[k].name)) :
                        row \in ConceptChoices(found[k].name)}

\* routes_chat.py:207-213  what search_concepts can return
SoloRelated(query) ==
    {SearchResult(cosine, "concepts", query, concepts, ConceptLimit, ConceptThreshold)}
    \cup (IF EarlyReturn(query, concepts) \/ OnException.outcome = "raised"
          THEN {} ELSE {OnException.value})

\* routes_chat.py:231-276  the candidates after the direct transcript search
SoloDirectSearch(query, found) ==
    LET chunks == Take(audio_chunks, ChunkLimit)
        evts == SelectSeq(events,
                   LAMBDA e : \E k \in 1..Len(chunks) : chunks[k].event_id = e.id)
        objects == [k \in 1..Len(chunks) |->
                       TranscriptObject(chunks[k], EventOf(evts, chunks[k].event_id))]
    IN IF chunks = <<>> THEN {found}
       ELSE {[found EXCEPT !.notes = @ \o SearchResult(cosine, "transcripts", query, objects,
                                                        TranscriptLimit, TranscriptThreshold)]}
            \cup (IF EarlyReturn(query, objects) \/ OnException.outcome = "raised"
                  THEN {} ELSE {[found EXCEPT !.notes = @ \o OnException.value]})

\* routes_chat.py:183-276  context_notes and related_concepts
SoloRetrieval(req) ==
    IF req.concept # <<>>
    THEN {[notes |-> NotesByConcept(row), related |-> <<>>] :
             row \in ConceptChoices(req.concept)}
    ELSE IF concepts = <<>> THEN {[notes |-> <<>>, related |-> <<>>]}
    ELSE UNION {IF DirectSearchWanted(found.notes, concepts)
                THEN SoloDirectSearch(req.query, found) ELSE {found} :
                   found \in UNION {SoloConceptLoop(results, 1, <<>>, <<>>) :
                                       results \in SoloRelated(req.query)}}

\* routes_chat.py:285-352
SoloOutcomes(req) ==
    UNION {LET content == Pass2(found.notes, Pass1(found.notes))
           IN {[relevant_events |-> Pass1(found.notes),
                context_parts |-> BuildContextParts(content, orders),
                sources |-> BuildSources(content),
                related_concepts |-> found.related] :
                  orders \in OrderChoices(content, 1)} :
              found \in SoloRetrieval(req)}

\* what request r has come to
ChatOutcome(r) ==
    [relevant_events |-> relevant_events[r], context_parts |-> context_parts[r],
     sources |-> sources[r], related_concepts |-> related_concepts[r]]

\* C23: however two requests interleave, the admitted events, the context,
\* the sources and the related concepts a request has when it has built its
\* context are ones the request comes to when it runs on its own, and no
\* step of either request changes them afterwards.
C23_AsWhenAlone ==
    [][\A r \in Reqs :
          /\ (pc[r] = "build" /\ pc'[r] = "prompt") =>
                ChatOutcome(r)' \in SoloOutcomes(request[r])
          /\ AfterBuild(r) => ChatOutcome(r)' = ChatOutcome(r)]_vars

\* request 1 has built its context while request 2, a different request, is
\* in the middle of its loop over the related concepts
C23_Witness ==
    /\ AfterBuild(1) /\ sources[1] # <<>>
    /\ pc[2] = "concept_notes" /\ context_notes[2] # <<>>
    /\ request[1] # request[2]


\* no two concepts of the user have one name, no two links one chunk and
\* one concept
C24_KeysUnique ==
    /\ \A i, j \in 1..Len(concepts) : concepts[i].name = concepts[j].name => i = j
    /\ \A i, j \in 1..Len(chunk_concepts) :
          j \in LinkRows(chunk_concepts[i].chunk_id, chunk_concepts[i].concept_id) => i = j

\* a write path has written the link of the mention at hand: the row of the
\* pair carries the score and the time range of the mention, and a pair that
\* had a row before has no new one
C24_LinkWritten ==
    \A p \in Paths :
        w_inserted'[p] = w_inserted[p] + 1 =>
            LET mention == w_mentions[p][w_i[p]]
                before == LinkRows(w_chunk_id[p], w_concept_id[p])
            IN /\ before # {} => Len(chunk_concepts') = Len(chunk_concepts)
               /\ \E i \in 1..Len(chunk_concepts') :
                     /\ chunk_concepts'[i].chunk_id = w_chunk_id[p]
                     /\ chunk_concepts'[i].concept_id = w_concept_id[p]
                     /\ chunk_concepts'[i].score = mention.score
                     /\ chunk_concepts'[i].from_sec = mention.from_sec
                     /\ chunk_concepts'[i].to_sec = mention.to_sec

WithTranscript(r, e) == {i \in NotesOf(r, e) : context_notes[r][i].transcript # <<>>}

\* their transcripts in the order of the candidate list, one per occurrence
TranscriptsInOrder(r, e) ==
    [k \in 1..Cardinality(WithTranscript(r, e)) |->
        context_notes[r][CHOOSE i \in WithTranscript(r, e) :
                            Cardinality({j \in WithTranscript(r, e) : j < i}) = k - 1].transcript]

\* C25: the combined transcript of an admitted event is the non-empty
\* transcripts of all the candidate notes of the event, in the order of the
\* candidate list and once per occurrence, joined by single spaces, while a
\* summary that several of these notes carry is in the combined summary once.
C25_TranscriptPerOccurrence ==
    \A r \in Reqs :
        AfterBuild(r) =>
            \A e \in relevant_events[r] :
                /\ Cardinality(CombinedOf(r, e)) = 1
                /\ \A k \in CombinedOf(r, e) :
                      /\ combined[r][k].combined_transcript =
                            Join(TranscriptsInOrder(r, e), SPACE)
                      /\ \A i \in NotesOf(r, e) :
                            context_notes[r][i].summary # <<>> =>
                                Occurrences(combined[r][k].combined_summary,
                                            context_notes[r][i].summary) = 1

\* C25 witness: a note occurs twice among the candidates of an admitted
\* event: its transcript is in the combined transcript twice, its summary in
\* the combined summary once.
C25_Witness ==
    /\ AfterBuild(1)
    /\ Len(context_notes[1]) = 2
    /\ context_notes[1][1] = context_notes[1][2]
    /\ context_notes[1][1].transcript = TA /\ context_notes[1][1].summary = SA
    /\ Len(combined[1]) = 1
    /\ combined[1][1].combined_transcript = TA \o SPACE \o TA
    /\ combined[1][1].combined_summary = SA


\* the nodes of the returned graph of one type
NodesOfType(type) ==
    {i \in 1..Len(g_response.value.nodes) : g_response.value.nodes[i].type = type}

\* C26: a graph the export returns has at most `limit` nodes.
C26_AtMostLimitNodes ==
    ExportReturned => Len(g_response.value.nodes) <= g_limit

\* what the limit does bound: the concept nodes, by the number of links
\* fetched, and the event nodes when limit // 3 is not 0 and no event is named
C26_NodeBounds ==
    ExportReturned =>
        /\ Cardinality(NodesOfType("concept")) <= g_limit
        /\ (g_limit \div 3 > 0 /\ g_event_id = 0) =>
              Cardinality(NodesOfType("event")) <= g_limit \div 3


\* the duplicate-free listings of a set of texts
Listings(S) ==
    {o \in [1..Cardinality(S) -> S] :
        \A a, b \in 1..Cardinality(S) : a # b => o[a] # o[b]}

\* the non-empty summaries of the candidate notes of event e
SummariesOf(r, e) == {context_notes[r][i].summary : i \in NotesOf(r, e)} \ {<<>>}

\* the context parts an event can have, made of its own notes only: the title
\* of its first candidate note, the transcripts of its notes, their summaries
BlocksOf(r, e) ==
    {<<"\nEvent: ">> \o context_notes[r][FirstPos(r, e)].event_title
        \o <<"\nTranscript: ">> \o Join(TranscriptsInOrder(r, e), SPACE)
        \o <<"\nSummary: ">> \o Join(o, SPACE)
        \o <<"\n---">> : o \in Listings(SummariesOf(r, e))}

\* C27: the context has one part for each admitted event and no other part;
\* the part of an event is made of the notes of that event alone, under the
\* title of the first candidate note of the event; the entry of the event
\* carries the title and the date of that note, and so does every source,
\* which is the source of an admitted event.
C27_ContextOfAdmitted ==
    \A r \in Reqs :
        AfterBuild(r) =>
            /\ Len(context_parts[r]) = Cardinality(relevant_events[r])
            /\ Len(event_content[r]) = Len(context_parts[r])
            /\ \A k \in 1..Len(event_content[r]) :
                  LET e == event_content[r][k].event_id
                      first == context_notes[r][FirstPos(r, e)]
                  IN /\ e \in relevant_events[r]
                     /\ \A m \in 1..Len(event_content[r]) :
                           event_content[r][m].event_id = e => m = k
                     /\ event_content[r][k].event_title = first.event_title
                     /\ event_content[r][k].event_date = first.event_date
                     /\ context_parts[r][k] \in BlocksOf(r, e)
            /\ \A k \in 1..Len(sources[r]) :
                  LET e == sources[r][k].event_id
                  IN /\ e \in relevant_events[r]
                     /\ sources[r][k].event_title =
                           context_notes[r][FirstPos(r, e)].event_title
                     /\ sources[r][k].event_date =
                           context_notes[r][FirstPos(r, e)].event_date

\* C27 witness: nineteen notes of an event that is not admitted carry text,
\* and the two notes of the admitted event differ in their date: the context
\* has one part, the source has the date of the first of the two.
C27_Witness ==
    /\ AfterBuild(1)
    /\ Len(context_notes[1]) = TopN + 1
    /\ relevant_events[1] = {1}
    /\ context_notes[1][1].event_id = 3 /\ context_notes[1][1].transcript = TF
    /\ context_notes[1][TopN].event_id = 1 /\ context_notes[1][TopN + 1].event_id = 1
    /\ context_notes[1][TopN].event_date # context_notes[1][TopN + 1].event_date
    /\ Len(context_parts[1]) = 1
    /\ ~Contains(context_parts[1][1], TF)
    /\ Len(sources[1]) = 1
    /\ sources[1][1].event_date = context_notes[1][TopN].event_date


\* a value float() raises on
NotANumber(value) ==
    CASE value.py = "float" -> FALSE
      [] value.py = "str" -> ~StrToFloat(value.s).ok
      [] OTHER -> TRUE

\* element k of the parsed array is a mapping with the keys name and score
\* whose score is no number
BadScoreAt(k) ==
    /\ x_concepts.items[k].py = "dict"
    /\ {"name", "score"} \subseteq DOMAIN x_concepts.items[k].d
    /\ NotANumber(x_concepts.items[k].d.score)

\* the function has parsed the response and has returned
ExtractParsed == x_pc = "done" /\ x_concepts # Unset

\* C28: when the parsed response is no array, or one of its first 10
\* elements is a mapping with name and score whose score is no number, the
\* function returns the empty list, whatever mentions it had accepted.
C28_AllOrNothing ==
    ExtractParsed =>
        ((\/ x_concepts.py # "list"
          \/ \E k \in 1..Min(MaxExtracted, Len(x_concepts.items)) : BadScoreAt(k))
            => x_return = [outcome |-> "returned", value |-> <<>>])

\* C28 witness: the first element of the array is a mention the loop accepts,
\* the second has the score "high": nothing is returned.
C28_Witness ==
    /\ ExtractParsed
    /\ x_concepts.py = "list" /\ Len(x_concepts.items) = 2
    /\ x_concepts.items[1] = JsonValue["{pricing}"]
    /\ BadScoreAt(2)
    /\ x_return = [outcome |-> "returned", value |-> <<>>]


\* request r has made the call
HasCalled(r, call) == \E k \in 1..Len(calls[r]) : calls[r][k] = call

\* a candidate note that search_transcripts returned: only these carry a
\* similarity_score
FromTranscripts(note) == "similarity_score" \in DOMAIN note

\* C29: a request with an explicit concept runs neither search; otherwise
\* the transcript search runs after the concept search only, for a user with
\* a concept only and with no candidate note from the concepts only, and
\* without it no note of a transcript search is among the candidates.
C29_DirectSearchLast ==
    \A r \in Reqs :
        /\ request[r].concept # <<>> =>
              ~HasCalled(r, "search_concepts") /\ ~HasCalled(r, "search_transcripts")
        /\ \A k \in 1..Len(calls[r]) :
              calls[r][k] = "search_transcripts" =>
                  \E j \in 1..(k - 1) : calls[r][j] = "search_concepts"
        /\ HasCalled(r, "search_transcripts") =>
              /\ all_concepts[r] # <<>>
              /\ \A i \in 1..Len(context_notes[r]) : FromTranscripts(context_notes[r][i])
        /\ ~HasCalled(r, "search_transcripts") =>
              \A i \in 1..Len(context_notes[r]) : ~FromTranscripts(context_notes[r][i])

\* C29 witness: the concept search found a concept, the concept has no note,
\* and the transcript search that followed gave the candidates.
C29_Witness ==
    /\ request[1].concept = <<>>
    /\ related_concepts[1] # <<>>
    /\ calls[1] = <<"select concepts", "search_concepts", "get_notes_by_concept",
                    "select audio_chunks", "select events", "search_transcripts">>
    /\ context_notes[1] # <<>>


\* ------------------------------------------ SupabaseClient._make_request
\* supabase_client.py:27-72, called by select (74-105).  h_attempt is the
\* loop variable, h_replies what each HTTP attempt came to, h_sleeps the
\* waits, h_response the local `response`, h_return what the caller gets.

\* supabase_client.py:12  max_retries: int = 3
ClientMaxRetries == 3
\* supabase_client.py:12  retry_delay: float = 1.0
RetryDelay == 1

Response(status_code) == [kind |-> "response", status_code |-> status_code]
RequestError(kind) == [kind |-> kind, status_code |-> 0]

\* the status codes and the exceptions of client.request tried
StatusCodes == {200, 404, 429, 500, 503}
RetriedErrors == {"TimeoutException", "ConnectError"}
OtherErrors == {"ReadError"}

\* supabase_client.py:54, 64  what the loop retries on, attempts permitting
Retryable(reply) ==
    \/ reply.kind = "response" /\ (reply.status_code = 429 \/ reply.status_code >= 500)
    \/ reply.kind \in RetriedErrors

\* a loop that tries again after every error status
Retries_AnyErrorStatus(reply, attempt) ==
    /\ attempt < ClientMaxRetries
    /\ \/ reply.kind = "response" /\ reply.status_code >= 400
       \/ reply.kind \in RetriedErrors

\* supabase_client.py:54-59, 64-69
Retries(reply, attempt) == attempt < ClientMaxRetries /\ Retryable(reply)

\* supabase_client.py:56, 66  wait_time = self.retry_delay * (2 ** attempt)
WaitTime(attempt) == RetryDelay * (2 ^ attempt)

\* response.raise_for_status() (supabase_client.py:104): raises for 4xx, 5xx
RaisesForStatus(response) == response.status_code >= 400

HttpInit ==
    /\ ChatIdle /\ SearchIdle /\ cosine = <<>> /\ StorageEmpty
    /\ ExtractIdle /\ NormalizeIdle /\ ValidateIdle /\ WriteIdle /\ BatchIdle
    /\ GraphIdle /\ RetryIdle /\ ModelIdle
    /\ HttpIdle

httpOthers ==
    <<storageVars, cosine, chatVars, searchVars, extractVars, normalizeVars,
      validateVars, writeVars, batchVars, graphVars, retryVars, modelVars>>

\* supabase_client.py:97-102, 36-43  select calls _make_request
HttpCall ==
    /\ h_pc = "idle"
    /\ h_pc' = "attempt"
    /\ UNCHANGED <<h_attempt, h_requests, h_sleeps, h_replies, h_response, h_return>>
    /\ UNCHANGED httpOthers

\* the loop goes on after a wait, or the function is left with the outcome
AfterAttempt(reply, outcome) ==
    /\ h_requests' = h_requests + 1
    /\ h_replies' = Append(h_replies, reply)
    /\ IF Retries(reply, h_attempt)
       THEN /\ h_sleeps' = Append(h_sleeps, WaitTime(h_attempt))
            /\ h_attempt' = h_attempt + 1
            /\ h_pc' = "attempt"
            /\ UNCHANGED h_return
       ELSE /\ h_return' = [outcome |-> outcome, value |-> reply]
            /\ h_pc' = "left"
            /\ UNCHANGED <<h_attempt, h_sleeps>>

\* supabase_client.py:45-61  the attempt gets a response
HttpResponse ==
    /\ h_pc = "attempt"
    /\ \E status_code \in StatusCodes :
          /\ h_response' = Response(status_code)
          /\ AfterAttempt(Response(status_code), "returned")
    /\ UNCHANGED httpOthers

\* supabase_client.py:63-69  the attempt times out or cannot connect
HttpRequestError ==
    /\ h_pc = "attempt"
    /\ \E kind \in RetriedErrors : AfterAttempt(RequestError(kind), "raised")
    /\ UNCHANGED h_response
    /\ UNCHANGED httpOthers

\* supabase_client.py:45-52  the attempt raises an exception the function
\* does not catch
HttpOtherError ==
    /\ h_pc = "attempt"
    /\ \E kind \in OtherErrors :
          /\ h_replies' = Append(h_replies, RequestError(kind))
          /\ h_return' = [outcome |-> "raised", value |-> RequestError(kind)]
    /\ h_requests' = h_requests + 1
    /\ h_pc' = "left"
    /\ UNCHANGED <<h_attempt, h_sleeps, h_response>>
    /\ UNCHANGED httpOthers

\* supabase_client.py:104-105  select raises for the status or returns the
\* rows; an exception of _make_request passes through select
HttpSelectEnds ==
    /\ h_pc = "left"
    /\ h_pc' = IF h_return.outcome = "raised" \/ RaisesForStatus(h_return.value)
               THEN "raised" ELSE "returned"
    /\ UNCHANGED <<h_attempt, h_requests, h_sleeps, h_replies, h_response, h_return>>
    /\ UNCHANGED httpOthers

HttpNext ==
    \/ HttpCall
    \/ HttpResponse
    \/ HttpRequestError
    \/ HttpOtherError
    \/ HttpSelectEnds

\* every attempt ends: the client is built with timeout=30.0
\* (supabase_client.py:46), and every wait ends
SpecHttp == HttpInit /\ [][HttpNext]_vars /\ WF_vars(HttpNext)

\* _make_request has been left
HttpLeft == h_pc \in {"left", "raised", "returned"}

\* the HTTP attempts are at most max_retries + 1; each attempt but the last
\* got 429, a status from 500 on, a timeout or a connection error; the
\* function is left with what the last attempt came to, a response returned
\* and an exception raised, and with a 429 or a status from 500 on only when
\* the attempts are used up; select then raises
C30_BoundedAttempts ==
    /\ h_requests = Len(h_replies)
    /\ h_requests <= ClientMaxRetries + 1
    /\ \A k \in 1..(Len(h_replies) - 1) : Retryable(h_replies[k])
    /\ HttpLeft =>
          LET last == h_replies[Len(h_replies)]
          IN /\ h_return.value = last
             /\ h_return.outcome = IF last.kind = "response" THEN "returned" ELSE "raised"
             /\ Retryable(last) => h_requests = ClientMaxRetries + 1
             /\ h_pc = "returned" => (last.kind = "response" /\ last.status_code < 400)
             /\ h_pc = "raised" => (last.kind # "response" \/ last.status_code >= 400)
    /\ ~HttpLeft => h_requests <= h_attempt

\* C30: _make_request is left after at most max_retries + 1 HTTP attempts,
\* retrying after 429, 5xx, a timeout or a connection error only, returning
\* any other response at once, the last 429 or 5xx response when the
\* attempts are used up (select then raises), and raising the timeout or
\* connection error of the last attempt.
C30_Terminates == []C30_BoundedAttempts /\ <>(h_pc \in {"raised", "returned"})

\* C30 witness: four attempts, a time-out, 429, a connection error and 503:
\* after waits of 1, 2 and 4 seconds the 503 response is returned and select
\* raises.
C30_Witness ==
    /\ h_pc = "raised"
    /\ h_replies = <<RequestError("TimeoutException"), Response(429),
                     RequestError("ConnectError"), Response(503)>>
    /\ h_sleeps = <<1, 2, 4>>
    /\ h_return = [outcome |-> "returned", value |-> Response(503)]

====
